---- MODULE Spec2Model ----
(***************************************************************************)
(* A model of ytsubsdown: the scraping pipeline of                         *)
(* api/youtube_downloader.py (YouTubeSubtitleDownloader and its helpers)   *)
(* and the dev server's request handlers that drive it (dev_server.py).   *)
(*                                                                         *)
(* Conventions.  A Python string whose characters matter (a URL, a view   *)
(* count text, a date) is a sequence of one-character strings; an opaque   *)
(* string (a title, a track name) is a TLA+ string.  An optional value    *)
(* (None, or a dict key that is absent) is None == <<>>, a present value  *)
(* v is Some(v) == <<v>>.                                                  *)
(***************************************************************************)
EXTENDS Integers, Sequences, FiniteSets, TLC

None == <<>>
Some(v) == <<v>>
Val(o) == o[1]

RECURSIVE Concat(_)
\* "".join(parts): the concatenation of a sequence of character sequences.
Concat(parts) ==
  IF parts = <<>> THEN <<>> ELSE Head(parts) \o Concat(Tail(parts))

\****************************************************************************
\* Characters, digits and number formatting (str.isdigit, int(), f"{n:02d}").
\****************************************************************************
Digits == <<"0","1","2","3","4","5","6","7","8","9">>

IsDigit(c) == \E d \in 1..10 : Digits[d] = c

DigitVal(c) == (CHOOSE d \in 1..10 : Digits[d] = c) - 1

DigitChar(n) == Digits[n + 1]

IsSpace(c) == c \in {" ", "\t", "\n"}

RECURSIVE NatOfDigits(_)
\* The value of a non-empty sequence of decimal digits.
NatOfDigits(s) ==
  IF s = <<>> THEN 0
  ELSE NatOfDigits(SubSeq(s, 1, Len(s) - 1)) * 10 + DigitVal(s[Len(s)])

\* int(s) for a str s: Some(value), or None where Python raises ValueError.
\* (Python also accepts surrounding blanks, a sign and underscores; the
\* inputs used here carry none of them.)
ParseInt(s) ==
  IF s # <<>> /\ \A k \in 1..Len(s) : IsDigit(s[k])
  THEN Some(NatOfDigits(s)) ELSE None

\* f"{n:02d}" for n >= 0.
Pad2(n) ==
  IF n < 10 THEN <<"0", DigitChar(n)>>
  ELSE IF n < 100 THEN <<DigitChar(n \div 10), DigitChar(n % 10)>>
  ELSE <<DigitChar(n \div 100), DigitChar((n \div 10) % 10), DigitChar(n % 10)>>

\* A year captured by \d{4}, or strftime('%Y'), as four digits.
Year4(y) ==
  <<DigitChar((y \div 1000) % 10), DigitChar((y \div 100) % 10),
    DigitChar((y \div 10) % 10), DigitChar(y % 10)>>

\****************************************************************************
\* _extract_video_id: the two URL patterns, tried in order with re.search.
\****************************************************************************
\* {11}: the length of a video id.
IdLen == 11

\* The mutated character class [0-9A-Za-z]: '_' and '-' forgotten.
IdCharsAlnum ==
  {"0","1","2","3","4","5","6","7","8","9",
   "A","B","C","D","E","F","G","H","I","J","K","L","M","N","O","P","Q","R",
   "S","T","U","V","W","X","Y","Z",
   "a","b","c","d","e","f","g","h","i","j","k","l","m","n","o","p","q","r",
   "s","t","u","v","w","x","y","z"}

\* [0-9A-Za-z_-]
IdChars ==
  {"0","1","2","3","4","5","6","7","8","9",
   "A","B","C","D","E","F","G","H","I","J","K","L","M","N","O","P","Q","R",
   "S","T","U","V","W","X","Y","Z",
   "a","b","c","d","e","f","g","h","i","j","k","l","m","n","o","p","q","r",
   "s","t","u","v","w","x","y","z","_","-"}

\* The literal lit occurs in url at position i.
HasAt(url, i, lit) ==
  /\ i >= 1
  /\ i + Len(lit) - 1 <= Len(url)
  /\ \A k \in 1..Len(lit) : url[i + k - 1] = lit[k]

\* ([0-9A-Za-z_-]{11}) matches at position i.
IsIdRun(url, i) ==
  /\ i >= 1
  /\ i + IdLen - 1 <= Len(url)
  /\ \A k \in i..(i + IdLen - 1) : url[k] \in IdChars

\* patterns: each is (?:alt1|alt2) followed by the 11-character group (the
\* trailing .* of the first pattern changes neither the match nor the group).
patterns ==
  << << <<"v","=">>, <<"/">> >>,
     << <<"e","m","b","e","d","/">>, <<"y","o","u","t","u",".","b","e","/">> >> >>

\* The pattern with alternatives alts matches starting at position i.
MatchesAt(url, i, alts) ==
  \E a \in 1..Len(alts) : HasAt(url, i, alts[a]) /\ IsIdRun(url, i + Len(alts[a]))

\* Where the group starts when the pattern matches at i: the first
\* alternative, in order, that lets the whole pattern match.
GroupStart(url, i, alts) ==
  LET a == CHOOSE a \in 1..Len(alts) :
             /\ HasAt(url, i, alts[a]) /\ IsIdRun(url, i + Len(alts[a]))
             /\ \A b \in 1..(a - 1) :
                  ~(HasAt(url, i, alts[b]) /\ IsIdRun(url, i + Len(alts[b])))
  IN i + Len(alts[a])

\* re.search(pattern, url): the leftmost position where the pattern matches
\* (0: no match).
SearchPos(url, alts) ==
  IF \E i \in 1..Len(url) : MatchesAt(url, i, alts)
  THEN CHOOSE i \in 1..Len(url) :
         /\ MatchesAt(url, i, alts)
         /\ \A j \in 1..(i - 1) : ~MatchesAt(url, j, alts)
  ELSE 0

\* match.group(1) of re.search(pattern, url), or None.
SearchGroup(url, alts) ==
  LET i == SearchPos(url, alts)
  IN IF i = 0 THEN None
     ELSE LET g == GroupStart(url, i, alts)
          IN Some(SubSeq(url, g, g + IdLen - 1))

\* The index of the first pattern that matches url (0: none does).
FirstPattern(url) ==
  IF \E p \in 1..Len(patterns) : SearchPos(url, patterns[p]) # 0
  THEN CHOOSE p \in 1..Len(patterns) :
         /\ SearchPos(url, patterns[p]) # 0
         /\ \A q \in 1..(p - 1) : SearchPos(url, patterns[q]) = 0
  ELSE 0

\* A mutant: the last pattern that matches wins instead of the first.
ExtractVideoIdLastPattern(url) ==
  IF \E p \in 1..Len(patterns) : SearchPos(url, patterns[p]) # 0
  THEN SearchGroup(url, patterns[CHOOSE p \in 1..Len(patterns) :
         /\ SearchPos(url, patterns[p]) # 0
         /\ \A q \in (p + 1)..Len(patterns) : SearchPos(url, patterns[q]) = 0])
  ELSE None

\* _extract_video_id(url): the group of the first pattern that matches.
ExtractVideoId(url) ==
  IF FirstPattern(url) = 0 THEN None
  ELSE SearchGroup(url, patterns[FirstPattern(url)])

\****************************************************************************
\* parse_view_count
\****************************************************************************
RECURSIVE SkipSpaces(_, _)
\* The first position >= i of s that holds no whitespace (Len(s) + 1: none).
SkipSpaces(s, i) ==
  IF i <= Len(s) /\ IsSpace(s[i]) THEN SkipSpaces(s, i + 1) ELSE i

\* c is the letter l (given in lower case) in either case (re.IGNORECASE).
IsLetter(c, l) ==
  \/ c = l
  \/ <<l, c>> \in {<<"v","V">>, <<"i","I">>, <<"e","E">>, <<"w","W">>, <<"s","S">>,
                   <<"k","K">>, <<"m","M">>, <<"b","B">>}

\* Where a match of \s*views?\s* that starts at position i ends (the position
\* after it), or 0 when the pattern does not match at i.
ViewsMatchEnd(s, i) ==
  LET j == SkipSpaces(s, i)
  IN IF /\ j + 3 <= Len(s)
        /\ IsLetter(s[j], "v") /\ IsLetter(s[j + 1], "i")
        /\ IsLetter(s[j + 2], "e") /\ IsLetter(s[j + 3], "w")
     THEN IF j + 4 <= Len(s) /\ IsLetter(s[j + 4], "s")
          THEN SkipSpaces(s, j + 5) ELSE SkipSpaces(s, j + 4)
     ELSE 0

RECURSIVE RemoveViews(_, _)
\* re.sub(r'\s*views?\s*', '', s, flags=re.IGNORECASE), from position i on.
RemoveViews(s, i) ==
  IF i > Len(s) THEN <<>>
  ELSE IF ViewsMatchEnd(s, i) # 0 THEN RemoveViews(s, ViewsMatchEnd(s, i))
  ELSE <<s[i]>> \o RemoveViews(s, i + 1)

RECURSIVE LStrip(_)
LStrip(s) == IF s # <<>> /\ IsSpace(Head(s)) THEN LStrip(Tail(s)) ELSE s

RECURSIVE RStrip(_)
RStrip(s) ==
  IF s # <<>> /\ IsSpace(s[Len(s)]) THEN RStrip(SubSeq(s, 1, Len(s) - 1)) ELSE s

\* str.strip()
Strip(s) == RStrip(LStrip(s))

RECURSIVE RemoveCommas(_)
\* s.replace(',', '')
RemoveCommas(s) ==
  IF s = <<>> THEN <<>>
  ELSE IF Head(s) = "," THEN RemoveCommas(Tail(s))
  ELSE <<Head(s)>> \o RemoveCommas(Tail(s))

\* multipliers = {'K': 1000, 'M': 1000000, 'B': 1000000000}; 0 for a
\* character that is no suffix (view_str.upper().endswith(suffix)).
Multiplier(c) ==
  IF IsLetter(c, "k") THEN 1000
  ELSE IF IsLetter(c, "m") THEN 1000000
  ELSE IF IsLetter(c, "b") THEN 1000000000
  ELSE 0

\* float(m) for a decimal literal m: Some(<<n, f>>) for the value n / 10^f
\* (f digits after the point), None where Python raises ValueError.
ParseFloat(m) ==
  LET dots == {k \in 1..Len(m) : m[k] = "."}
  IN IF \/ \E k \in 1..Len(m) : ~IsDigit(m[k]) /\ m[k] # "."
        \/ Cardinality(dots) > 1
        \/ Len(m) - Cardinality(dots) = 0
     THEN None
     ELSE IF dots = {} THEN Some(<<NatOfDigits(m), 0>>)
     ELSE LET d == CHOOSE k \in dots : TRUE
          IN Some(<<NatOfDigits(SubSeq(m, 1, d - 1) \o SubSeq(m, d + 1, Len(m))),
                    Len(m) - d>>)

\* The one-decimal mantissas below 100 (in tenths) and multipliers for which
\* the binary product number * multiplier falls just below the exact decimal
\* product, so that int() truncates to one less (4.1 * 1000000 is
\* 4099999.9999999995).
FloatLoss ==
  {<<41, 1000000>>, <<41, 1000000000>>, <<82, 1000000>>, <<82, 1000000000>>,
   <<164, 1000000>>, <<164, 1000000000>>, <<169, 1000000000>>, <<323, 1000>>,
   <<323, 1000000>>, <<323, 1000000000>>, <<328, 1000000>>, <<328, 1000000000>>,
   <<333, 1000000>>, <<333, 1000000000>>, <<338, 1000000000>>, <<343, 1000000000>>,
   <<641, 1000>>, <<641, 1000000>>, <<641, 1000000000>>, <<646, 1000>>,
   <<646, 1000000>>, <<646, 1000000000>>, <<651, 1000>>, <<651, 1000000>>,
   <<651, 1000000000>>, <<656, 1000000>>, <<656, 1000000000>>, <<661, 1000000>>,
   <<661, 1000000000>>, <<666, 1000000>>, <<666, 1000000000>>, <<671, 1000000>>,
   <<671, 1000000000>>, <<676, 1000000000>>, <<681, 1000000000>>,
   <<686, 1000000000>>}

RECURSIVE Pow10(_)
Pow10(f) == IF f = 0 THEN 1 ELSE 10 * Pow10(f - 1)

\* int(number * multiplier) for number = n / 10^f.
IntOfProduct(n, f, mult) ==
  IF f = 0 THEN n * mult
  ELSE ((n * (mult \div Pow10(f))))
       - (IF f = 1 /\ <<n, mult>> \in FloatLoss THEN 1 ELSE 0)

\* lines 29-41, for a view_str that ends in the suffix of multiplier mult
\* (0: in no suffix) and whose text before the last character is number as
\* a float (None: float() raises ValueError, and the loop goes on to int()).
ParseViewStr(view_str, mult, number) ==
  IF mult # 0 /\ number # None
  THEN Some(IntOfProduct(Val(number)[1], Val(number)[2], mult))
  ELSE ParseInt(RemoveCommas(view_str))

\* lines 23-41, for the stripped view_str.
ParseStripped(view_str) ==
  IF view_str = <<>> THEN None
  ELSE ParseViewStr(view_str, Multiplier(view_str[Len(view_str)]),
                    ParseFloat(SubSeq(view_str, 1, Len(view_str) - 1)))

\* parse_view_count(view_count_str): Some(count) or None.
parse_view_count(view_count_str) ==
  IF view_count_str = <<>> THEN None
  ELSE ParseStripped(Strip(RemoveViews(view_count_str, 1)))

\****************************************************************************
\* parse_publish_date.  The date text is given by what the function's two
\* regular expressions find in it: cal is the capture of
\* ([A-Za-z]{3})\s+(\d{1,2}),?\s+(\d{4}) (the month name lowercased), rel the
\* capture of (\d+)\s+(year|month|week|day)s?\s+ago (the unit lowercased);
\* None where the expression finds nothing.  today is datetime.now().
\****************************************************************************
\* month_names
month_names ==
  [m \in {"jan","feb","mar","apr","may","jun","jul","aug","sep","oct","nov","dec"} |->
     CASE m = "jan" -> 1 [] m = "feb" -> 2 [] m = "mar" -> 3 [] m = "apr" -> 4
       [] m = "may" -> 5 [] m = "jun" -> 6 [] m = "jul" -> 7 [] m = "aug" -> 8
       [] m = "sep" -> 9 [] m = "oct" -> 10 [] m = "nov" -> 11 [] m = "dec" -> 12]

IsLeap(y) == (y % 4 = 0 /\ y % 100 # 0) \/ y % 400 = 0

DaysInMonth(y, m) ==
  IF m = 2 THEN (IF IsLeap(y) THEN 29 ELSE 28)
  ELSE IF m \in {4, 6, 9, 11} THEN 30 ELSE 31

\* strftime('%Y-%m-%d') / f"{year}-{month}-{int(day):02d}"
FormatDate(y, m, d) == Year4(y) \o <<"-">> \o Pad2(m) \o <<"-">> \o Pad2(d)

\* date.replace(year=ym[1], month=ym[2]): None where it raises ValueError.
ReplaceDate(ym, d) ==
  IF ym[1] >= 1 /\ d <= DaysInMonth(ym[1], ym[2])
  THEN Some(FormatDate(ym[1], ym[2], d)) ELSE None

RECURSIVE BorrowMonths(_, _)
\* while estimated_month <= 0: estimated_month += 12; estimated_year -= 1
BorrowMonths(ey, em) ==
  IF em <= 0 THEN BorrowMonths(ey - 1, em + 12) ELSE <<ey, em>>

RECURSIVE SubDays(_, _, _, _)
\* current_date - timedelta(days=n)
SubDays(y, m, d, n) ==
  IF n < d THEN FormatDate(y, m, d - n)
  ELSE LET py == IF m = 1 THEN y - 1 ELSE y
           pm == IF m = 1 THEN 12 ELSE m - 1
       IN SubDays(py, pm, DaysInMonth(py, pm), n - d)

\* The relative branch of parse_publish_date (lines 73-96): None where
\* replace raises ValueError.
RelativeDate(rel, today) ==
  IF rel.unit \in {"year", "month"}
  THEN ReplaceDate(IF rel.unit = "year" THEN <<today.y - rel.n, today.m>>
                   ELSE BorrowMonths(today.y, today.m - rel.n),
                   today.d)
  ELSE Some(SubDays(today.y, today.m, today.d,
                    IF rel.unit = "week" THEN 7 * rel.n ELSE rel.n))

\* f"{year}-{month}-{int(day):02d}" (line 65)
CalendarDate(cal) == FormatDate(cal.year, month_names[cal.mon], cal.day)

\* A mutant: the relative form is tried before the calendar form.
ParsePublishDateRelativeFirst(date, today) ==
  IF date.rel # None /\ RelativeDate(Val(date.rel), today) # None
  THEN RelativeDate(Val(date.rel), today)
  ELSE IF date.cal # None /\ Val(date.cal).mon \in DOMAIN month_names
  THEN Some(CalendarDate(Val(date.cal)))
  ELSE None

\* parse_publish_date(date_str): Some("YYYY-MM-DD") or None.
parse_publish_date(date, today) ==
  IF date.cal # None /\ Val(date.cal).mon \in DOMAIN month_names
  THEN Some(CalendarDate(Val(date.cal)))
  ELSE IF date.rel # None THEN RelativeDate(Val(date.rel), today)
  ELSE None

\****************************************************************************
\* The video page.  A page is given by what the downloader's regular
\* expressions find in its HTML:
\*   scripts  the assignments "ytInitialPlayerResponse = {...};" followed by
\*            "var meta" or "</script", in document order; hasVar: the
\*            assignment is written "var ytInitialPlayerResponse"; doc: the
\*            JSON document the captured text parses to, None when the text
\*            is not valid JSON;
\*   info     the captures of info_pattern (a views span, then a date span);
\*   tooltip  the captures of tooltip_pattern ("N views . Mon D, YYYY").
\****************************************************************************
\* The script a variant of the pattern finds: variant 1 needs the "var "
\* prefix, variant 2 matches every assignment; re.search returns the
\* leftmost (0: no match).
VariantMatch(scripts, variant) ==
  LET hits == {k \in 1..Len(scripts) : variant = 2 \/ scripts[k].hasVar}
  IN IF hits = {} THEN 0 ELSE CHOOSE k \in hits : \A j \in hits : k <= j

\* A mutant: on a JSONDecodeError the loop goes on to the next variant.
ExtractPlayerResponseContinue(scripts) ==
  LET ok == {v \in 1..2 : VariantMatch(scripts, v) # 0
                          /\ scripts[VariantMatch(scripts, v)].doc # None}
  IN IF ok = {} THEN None
     ELSE scripts[VariantMatch(scripts, CHOOSE v \in ok : \A w \in ok : v <= w)].doc

\* _extract_yt_initial_player_response(html_content): the first variant that
\* matches decides; json.loads of its capture is returned, None on a
\* JSONDecodeError, None when no variant matches.
ExtractPlayerResponse(scripts) ==
  IF VariantMatch(scripts, 1) # 0 THEN scripts[VariantMatch(scripts, 1)].doc
  ELSE IF VariantMatch(scripts, 2) # 0 THEN scripts[VariantMatch(scripts, 2)].doc
  ELSE None

\* Python's "not x" for an optional integer: None and 0 are falsy.
FalsyInt(o) == o = None \/ Val(o) = 0

\* Python's "not x" for an optional string of characters.
FalsySeq(o) == o = None \/ Val(o) = <<>>

\* Python's "not x" for an optional opaque string.
FalsyStr(o) == o = None \/ Val(o) = ""

\* lines 233-238: the view count of the info span.
InfoViewsOf(info) ==
  IF info # None THEN parse_view_count(Val(info).views) ELSE None

\* lines 233-238: the date of the info span.
InfoDateOf(info, today) ==
  IF info # None THEN parse_publish_date(Val(info).date, today) ELSE None

\* A mutant: the tooltip's calendar date wins over the date of the info span.
MergeHtmlInfoTooltipFirst(views, publish_date, tooltip, today) ==
  [views |-> views,
   publish_date |->
     IF tooltip # None /\ parse_publish_date(Val(tooltip).date, today) # None
     THEN parse_publish_date(Val(tooltip).date, today)
     ELSE publish_date]

\* lines 240-255: the tooltip fills in what the info span did not give.
MergeHtmlInfo(views, publish_date, tooltip, today) ==
  [views |->
     IF tooltip # None /\ FalsyInt(views)
     THEN parse_view_count(Val(tooltip).views \o <<" ","v","i","e","w","s">>)
     ELSE views,
   publish_date |->
     IF tooltip # None /\ FalsySeq(publish_date)
     THEN parse_publish_date(Val(tooltip).date, today)
     ELSE publish_date]

\* _extract_views_and_date_from_html(html_content)
ExtractViewsAndDate(page, today) ==
  MergeHtmlInfo(InfoViewsOf(page.info), InfoDateOf(page.info, today),
                page.tooltip, today)

\****************************************************************************
\* The player response.  A JSON document is a record of the fields the
\* downloader reads:
\*   viewCount         videoDetails.viewCount: [kind, s, n], kind "absent",
\*                     "str" (the string s), "int" (the number n) or "list";
\*   title, author     videoDetails.title / .author: optional strings;
\*   shortDescription  videoDetails.shortDescription: its lines;
\*   mfTitle           microformat...title: kind "absent", "null" or "object",
\*                     with simpleText [kind "absent" | "null" | "str", s];
\*   ownerChannelName  [kind "absent" | "null" | "str", s];
\*   mfDescription     microformat...description.simpleText: its lines;
\*   publishDate, uploadDate   optional character strings;
\*   captions          kind "absent", "norenderer" or "renderer", with the
\*                     captionTracks.
\****************************************************************************
\* dict.get(key, default) for a string-valued key: the default only when the
\* key is absent; a null value comes back as None.
GetOr(j, default) ==
  IF j.kind = "absent" THEN Some(default)
  ELSE IF j.kind = "null" THEN None
  ELSE Some(j.s)

\* A mutant: the default also replaces a null or empty value.
GetOrNonEmpty(j, default) ==
  IF j.kind = "str" /\ j.s # "" THEN Some(j.s) ELSE Some(default)

\* lines 281-286: int(video_details["viewCount"]) when the field is truthy;
\* None when it is not, or when int() raises ValueError or TypeError.
StructuredViewCount(vc) ==
  IF vc.kind = "str" /\ vc.s # <<>> THEN ParseInt(vc.s)
  ELSE IF vc.kind = "int" /\ vc.n # 0 THEN Some(vc.n)
  ELSE None

\* A mutant of the merge: the HTML value wins whenever there is one.
FirstViewCountHtml(view_count, html_views) ==
  IF html_views # None THEN html_views ELSE view_count

\* lines 287-288: if not view_count: view_count = html_info.get("views")
FirstViewCount(view_count, html_views) ==
  IF FalsyInt(view_count) THEN html_views ELSE view_count

\* lines 281-288: the view count, from the player response first.
ViewCountOf(pr, html_info) ==
  FirstViewCount(StructuredViewCount(pr.viewCount), html_info.views)

\* publish_date[:10] when len(publish_date) > 10
Truncate10(s) == IF Len(s) > 10 THEN SubSeq(s, 1, 10) ELSE s

\* lines 291-300: the structured date, publishDate before uploadDate.
StructuredDate(pr) ==
  IF ~FalsySeq(pr.publishDate) THEN Some(Truncate10(Val(pr.publishDate)))
  ELSE IF ~FalsySeq(pr.uploadDate) THEN Some(Truncate10(Val(pr.uploadDate)))
  ELSE None

\* A mutant: the date scraped from the HTML wins over the structured field.
FirstDateHtml(publish_date, html_date) ==
  IF FalsySeq(html_date) THEN publish_date ELSE html_date

\* lines 301-302: if not publish_date: publish_date = html_info.get("publish_date")
FirstDate(publish_date, html_date) ==
  IF FalsySeq(publish_date) THEN html_date ELSE publish_date

\* lines 290-302: the publish date, from the microformat first.
PublishDateOf(pr, html_info) == FirstDate(StructuredDate(pr), html_info.publish_date)

\* line 305: video_details.get("title")
\*             or microformat_renderer.get("title", {}).get("simpleText", "Unknown Title")
TitleOf(pr) ==
  IF ~FalsyStr(pr.title) THEN pr.title
  ELSE IF pr.mfTitle.kind = "absent" THEN Some("Unknown Title")
  ELSE GetOr(pr.mfTitle.simpleText, "Unknown Title")

\* line 306: video_details.get("author")
\*             or microformat_renderer.get("ownerChannelName", "Unknown Channel")
ChannelOf(pr) ==
  IF ~FalsyStr(pr.author) THEN pr.author
  ELSE GetOr(pr.ownerChannelName, "Unknown Channel")

\* line 307: (shortDescription or microformat description or "").split('\n')[0]
DescriptionOf(pr) ==
  IF pr.shortDescription # None /\ Val(pr.shortDescription) # <<"">>
  THEN Val(pr.shortDescription)[1]
  ELSE IF pr.mfDescription # None THEN Val(pr.mfDescription)[1]
  ELSE ""

\* Evaluating line 305 raises AttributeError: the microformat title is null,
\* and None has no get.
MetadataRaises(pr) == FalsyStr(pr.title) /\ pr.mfTitle.kind = "null"

\* lines 304-312: self.video_metadata, html_info being the result of
\* _extract_views_and_date_from_html (line 278).
MetadataOf(pr, html_info, url, id) ==
  [title |-> TitleOf(pr),
   channel |-> ChannelOf(pr),
   description |-> DescriptionOf(pr),
   url |-> url,
   video_id |-> id,
   view_count |-> ViewCountOf(pr, html_info),
   publish_date |-> PublishDateOf(pr, html_info)]

\****************************************************************************
\* Caption tracks.  A captionTracks entry is [name, baseUrl, languageCode,
\* kind]: name is [kind "absent" | "bad" | "object", simpleText] ("bad": a
\* value that is no JSON object, on which .get raises AttributeError); the
\* other three are optional strings.
\****************************************************************************
\* lines 323-326 raise for this entry (caught at line 338, the entry is lost).
TrackRaises(t) == t.name.kind = "bad"

\* lines 332-337: the dict appended for a captionTracks entry.
TrackOf(t) ==
  [name |-> IF t.name.kind = "absent" THEN "Unknown Language"
            ELSE IF t.name.simpleText = None THEN "Unknown Language"
            ELSE Val(t.name.simpleText),
   url |-> Val(t.baseUrl),
   lang_code |-> IF t.languageCode = None THEN "unk" ELSE Val(t.languageCode),
   is_asr |-> (t.kind = Some("asr"))]

\* A mutant: only an absent URL is skipped ("is None" for "not base_url"), so
\* an entry with an empty URL is appended.
KeepTrackNotNone(t) == ~TrackRaises(t) /\ t.baseUrl # None

\* The entry passes lines 322-330 and is appended.
KeepTrack(t) == ~TrackRaises(t) /\ ~FalsyStr(t.baseUrl)

RECURSIVE AppendTracks(_, _)
\* lines 321-339: the loop over caption_tracks, appending to available_tracks.
AppendTracks(tracks, caption_tracks) ==
  IF caption_tracks = <<>> THEN tracks
  ELSE AppendTracks(IF KeepTrack(Head(caption_tracks))
                    THEN Append(tracks, TrackOf(Head(caption_tracks)))
                    ELSE tracks,
                    Tail(caption_tracks))

\* lines 316-343: the tracks after the captions section was read.
TracksOf(tracks, pr) ==
  IF pr.captions.kind = "renderer"
  THEN AppendTracks(tracks, pr.captions.captionTracks)
  ELSE tracks

\****************************************************************************
\* _populate_video_info and get_available_tracks, as functions of the
\* downloader's fields and of what the network returns for the page.
\*   fetch  "error": session.get or raise_for_status raises a
\*          RequestException; "empty": an empty body; "ok": the page.
\* A downloader is [video_url, video_id, player_response, video_metadata,
\* available_tracks]; video_metadata None is the empty dict.
\****************************************************************************
\* __init__, after the video id was extracted.
NewDownloader(url, id) ==
  [video_url |-> url, video_id |-> id, player_response |-> None,
   video_metadata |-> None, available_tracks |-> <<>>]

\* _populate_video_info from line 268 on, pr being what
\* _extract_yt_initial_player_response returned.
PopulateFrom(d, net, pr) ==
  IF pr = None
  THEN [ret |-> "false", d |-> [d EXCEPT !.player_response = pr],
        fetches |-> 1, extractions |-> 1]
  ELSE IF MetadataRaises(Val(pr))
  THEN [ret |-> "raise", d |-> [d EXCEPT !.player_response = pr],
        fetches |-> 1, extractions |-> 1]
  ELSE [ret |-> "true",
        d |-> [d EXCEPT
                 !.player_response = pr,
                 !.video_metadata =
                    Some(MetadataOf(Val(pr), ExtractViewsAndDate(net.page, net.today),
                                    d.video_url, d.video_id)),
                 !.available_tracks = TracksOf(d.available_tracks, Val(pr))],
        fetches |-> 1, extractions |-> 1]

\* _populate_video_info: [ret, d, fetches, extractions]; ret is "true",
\* "false" or "raise" (an exception leaves the method), d the downloader
\* afterwards.
Populate(d, net) ==
  IF net.fetch # "ok"
  THEN [ret |-> "false", d |-> d, fetches |-> 1, extractions |-> 0]
  ELSE PopulateFrom(d, net, ExtractPlayerResponse(net.page.scripts))

\* lines 352-354, p being what _populate_video_info did.
TracksAfter(p) ==
  [ret |-> IF p.ret = "raise" THEN "raise" ELSE "return",
   tracks |-> IF p.ret = "true" THEN p.d.available_tracks ELSE <<>>,
   d |-> p.d, fetches |-> p.fetches, extractions |-> p.extractions]

\* A mutant of the test of line 351: "if not self.available_tracks", the
\* player response not looked at.
GetAvailableTracksNoTracksOnly(d, net) ==
  IF d.available_tracks = <<>>
  THEN TracksAfter(Populate(d, net))
  ELSE [ret |-> "return", tracks |-> d.available_tracks, d |-> d,
        fetches |-> 0, extractions |-> 0]

\* get_available_tracks: [ret, tracks, d, fetches, extractions]; ret is
\* "return" or "raise".
GetAvailableTracks(d, net) ==
  IF d.available_tracks = <<>> /\ d.player_response = None
  THEN TracksAfter(Populate(d, net))
  ELSE [ret |-> "return", tracks |-> d.available_tracks, d |-> d,
        fetches |-> 0, extractions |-> 0]

\****************************************************************************
\* The inputs: URLs, pages and player responses the requests are drawn from.
\* Each group varies the fields one part of the pipeline reads and keeps the
\* rest at a default.
\****************************************************************************
\* The longest captionTracks list.
MaxTracks == 2

\* The most ytInitialPlayerResponse assignments in a page.
MaxScripts == 2

SeqsUpTo(S, n) == UNION {[1..k -> S] : k \in 0..n}

IdA == <<"d","Q","w","4","w","9","W","g","X","c","Q">>

IdB == <<"a","-","b","_","c","1","d","2","e","3","f">>

VideoIds == {IdA, IdB}

\* The accepted URL shapes: what precedes the id, up to and including the
\* "v=", "/", "embed/" or "youtu.be/" that introduces it.
ShapeWatch == <<"h","t","t","p","s",":","/","/","w","w","w",".","y","o","u","t","u","b","e",".","c","o","m","/","w","a","t","c","h","?","v","=">>

ShapePath == <<"h","t","t","p","s",":","/","/","w","w","w",".","y","o","u","t","u","b","e",".","c","o","m","/","s","h","o","r","t","s","/">>

ShapeEmbed == <<"h","t","t","p","s",":","/","/","w","w","w",".","y","o","u","t","u","b","e",".","c","o","m","/","e","m","b","e","d","/">>

ShapeShort == <<"h","t","t","p","s",":","/","/","y","o","u","t","u",".","b","e","/">>

ShapeBare == <<"y","o","u","t","u",".","b","e","/">>

\* A ...v=ID URL whose "..." holds a path segment of 14 digits.
ShapeArchived == <<"h","t","t","p","s",":","/","/","w","e","b",".","a","r","c","h","i","v","e",".","o","r","g","/","w","e","b","/","2","0","2","0","0","1","0","1","0","0","0","0","0","0","/","h","t","t","p","s",":","/","/","w","w","w",".","y","o","u","t","u","b","e",".","c","o","m","/","w","a","t","c","h","?","v","=">>

\* A ...v=ID URL whose "..." holds an earlier v= parameter.
ShapeSecondV == <<"h","t","t","p","s",":","/","/","w","w","w",".","y","o","u","t","u","b","e",".","c","o","m","/","w","a","t","c","h","?","r","v","=","0","1","2","3","4","5","6","7","8","9","A","&","v","=">>

Shapes ==
  {ShapeWatch, ShapePath, ShapeEmbed, ShapeShort, ShapeBare, ShapeArchived,
   ShapeSecondV}

UrlSuffixes == {<<>>, <<"&","t","=","4","2","s">>, <<"?","f","e","a","t","u","r","e","=","s","h","a","r","e">>, <<"A","A","A">>}

\* The URLs of an accepted shape, each with the id it carries.
ShapedUrls ==
  {[shape |-> sh, id |-> id, text |-> sh \o id \o suf] :
     sh \in Shapes, id \in VideoIds, suf \in UrlSuffixes}

\* URLs that hold no 11-character token after "v=" or "/", and the empty one.
OtherUrls ==
  {<<>>, <<"h","t","t","p","s",":","/","/","w","w","w",".","y","o","u","t","u","b","e",".","c","o","m","/">>,
   <<"h","t","t","p","s",":","/","/","w","w","w",".","y","o","u","t","u","b","e",".","c","o","m","/","w","a","t","c","h","?","v","=","s","h","o","r","t">>,
   <<"h","t","t","p","s",":","/","/","w","w","w",".","y","o","u","t","u","b","e",".","c","o","m","/","w","a","t","c","h","?","l","i","s","t","=","P","L","0","1","2","3","4","5","6","7","8","9","A","B">>,
   <<"h","t","t","p","s",":","/","/","w","w","w",".","y","o","u","t","u","b","e",".","c","o","m","/","f","e","e","d","/","s","u","b","s","c","r","i","p","t","i","o","n","s">>}

Urls == {u.text : u \in ShapedUrls} \cup OtherUrls

DefaultUrl == ShapeWatch \o IdA

Str(kind, s) == [kind |-> kind, s |-> s]

TrackEn ==
  [name |-> [kind |-> "object", simpleText |-> Some("English")],
   baseUrl |-> Some("https://t/en"), languageCode |-> Some("en"), kind |-> None]

TrackProfiles ==
  {TrackEn,
   [name |-> [kind |-> "object", simpleText |-> Some("English (auto-generated)")],
    baseUrl |-> Some("https://t/asr"), languageCode |-> Some("en"),
    kind |-> Some("asr")],
   [name |-> [kind |-> "object", simpleText |-> Some("French")],
    baseUrl |-> None, languageCode |-> Some("fr"), kind |-> None],
   [name |-> [kind |-> "object", simpleText |-> Some("German")],
    baseUrl |-> Some(""), languageCode |-> Some("de"), kind |-> None],
   [name |-> [kind |-> "absent", simpleText |-> None],
    baseUrl |-> Some("https://t/x"), languageCode |-> None, kind |-> Some("forced")],
   [name |-> [kind |-> "object", simpleText |-> None],
    baseUrl |-> Some("https://t/runs"), languageCode |-> Some("es"), kind |-> None],
   [name |-> [kind |-> "bad", simpleText |-> None],
    baseUrl |-> Some("https://t/bad"), languageCode |-> Some("it"), kind |-> None]}

DefaultPR ==
  [viewCount |-> [kind |-> "str", s |-> <<"4","2">>, n |-> 0],
   title |-> Some("Title"), author |-> Some("Author"),
   shortDescription |-> Some(<<"First line", "second line">>),
   mfTitle |-> [kind |-> "object", simpleText |-> Str("str", "MF Title")],
   ownerChannelName |-> Str("str", "MF Channel"),
   mfDescription |-> None,
   publishDate |-> Some(<<"2","0","2","0","-","0","1","-","0","2">>), uploadDate |-> None,
   captions |-> [kind |-> "renderer", captionTracks |-> <<TrackEn>>]]

\* A second document, told from the default one by its title.
OtherPR == [DefaultPR EXCEPT !.title = Some("Other Title")]

PageOf(pr) ==
  [scripts |-> <<[hasVar |-> TRUE, doc |-> Some(pr)]>>, info |-> None,
   tooltip |-> None]

DefaultToday == [y |-> 2024, m |-> 3, d |-> 31]

Req(url, fetch, page, today) ==
  [url |-> url, net |-> [fetch |-> fetch, page |-> page, today |-> today]]

UrlRequests == {Req(u, "ok", PageOf(DefaultPR), DefaultToday) : u \in Urls}

FetchRequests ==
  {Req(DefaultUrl, f, PageOf(DefaultPR), DefaultToday) : f \in {"error", "empty"}}

ScriptRequests ==
  {Req(DefaultUrl, "ok", [PageOf(DefaultPR) EXCEPT !.scripts = sc], DefaultToday) :
     sc \in SeqsUpTo([hasVar : BOOLEAN, doc : {None, Some(DefaultPR), Some(OtherPR)}],
                     MaxScripts)}

ViewCounts ==
  {[kind |-> "absent", s |-> <<>>, n |-> 0],
   [kind |-> "str", s |-> <<>>, n |-> 0],
   [kind |-> "str", s |-> <<"0">>, n |-> 0],
   [kind |-> "str", s |-> <<"0","0">>, n |-> 0],
   [kind |-> "str", s |-> <<"5">>, n |-> 0],
   [kind |-> "str", s |-> <<"1","2","0","0">>, n |-> 0],
   [kind |-> "str", s |-> <<"1","2","x">>, n |-> 0],
   [kind |-> "int", s |-> <<>>, n |-> 0],
   [kind |-> "int", s |-> <<>>, n |-> 9],
   [kind |-> "list", s |-> <<>>, n |-> 0]}

NoDate == [cal |-> None, rel |-> None]

CalDate(mon, day, year) ==
  [cal |-> Some([mon |-> mon, day |-> day, year |-> year]), rel |-> None]

RelDate(n, unit) == [cal |-> None, rel |-> Some([n |-> n, unit |-> unit])]

InfoViews ==
  {<<"7"," ","v","i","e","w","s">>, <<"0"," ","v","i","e","w","s">>, <<"1",",","2","3","4"," ","v","i","e","w","s">>, <<"2","K"," ","v","i","e","w","s">>,
   <<"1",".","5","k"," ","v","i","e","w","s">>, <<"1"," ","v","i","e","w">>, <<"K"," ","v","i","e","w","s">>,
   <<"2",".","7","M"," ","v","i","e","w","s">>, <<"4",".","1","M"," ","v","i","e","w","s">>,
   <<"2","B"," ","v","i","e","w","s">>}

TooltipViews == {<<"3">>, <<"1",",","2","3","4">>}

ViewRequests ==
  {Req(DefaultUrl, "ok",
       [PageOf([DefaultPR EXCEPT !.viewCount = vc]) EXCEPT !.info = i, !.tooltip = tt],
       DefaultToday) :
     vc \in ViewCounts,
     i \in {None} \cup {Some([views |-> v, date |-> RelDate(2, "year")]) : v \in InfoViews},
     tt \in {None} \cup {Some([views |-> v, date |-> CalDate("feb", 1, 2019)]) :
                           v \in TooltipViews}}

StructuredDates ==
  {None, Some(<<>>), Some(<<"2","0","1","8">>), Some(<<"2","0","1","8","-","1","1","-","0","5">>),
   Some(<<"2","0","1","8","-","1","1","-","0","5","T","1","0",":","0","0",":","0","0","-","0","8",":","0","0">>)}

UploadDates == {None, Some(<<"2","0","1","7","-","0","1","-","0","2","T","0","0",":","0","0",":","0","0","Z">>)}

InfoDates ==
  {CalDate("nov", 5, 2018), CalDate("nov", 99, 2018), RelDate(2, "year"), RelDate(15, "month"),
   RelDate(3, "week"), RelDate(40, "day"),
   [cal |-> Some([mon |-> "nov", day |-> 5, year |-> 2018]),
    rel |-> Some([n |-> 2, unit |-> "year"])],
   [cal |-> Some([mon |-> "xyz", day |-> 5, year |-> 2018]),
    rel |-> Some([n |-> 1, unit |-> "year"])],
   CalDate("xyz", 5, 2018)}

TooltipDates == {CalDate("feb", 1, 2019), CalDate("abc", 1, 2019)}

Todays == {DefaultToday, [y |-> 2024, m |-> 2, d |-> 29]}

DateRequests ==
  {Req(DefaultUrl, "ok",
       [PageOf([DefaultPR EXCEPT !.publishDate = pd, !.uploadDate = ud])
          EXCEPT !.info = i, !.tooltip = tt],
       today) :
     pd \in StructuredDates, ud \in UploadDates,
     i \in {None} \cup {Some([views |-> <<"7"," ","v","i","e","w","s">>, date |-> d]) : d \in InfoDates},
     tt \in {None} \cup {Some([views |-> <<"3">>, date |-> d]) : d \in TooltipDates},
     today \in Todays}

OptStrings(s) == {None, Some(""), Some(s)}

JStrings(s) == {Str("absent", ""), Str("null", ""), Str("str", ""), Str("str", s)}

TitleRequests ==
  {Req(DefaultUrl, "ok",
       PageOf([DefaultPR EXCEPT !.title = ti, !.mfTitle = mt, !.author = au,
                                !.ownerChannelName = oc]),
       DefaultToday) :
     ti \in OptStrings("Title"),
     mt \in {[kind |-> "absent", simpleText |-> Str("absent", "")],
             [kind |-> "null", simpleText |-> Str("absent", "")]}
            \cup {[kind |-> "object", simpleText |-> st] : st \in JStrings("MF Title")},
     au \in OptStrings("Author"),
     oc \in JStrings("MF Channel")}

CaptionRequests ==
  {Req(DefaultUrl, "ok", PageOf([DefaultPR EXCEPT !.captions = c]), DefaultToday) :
     c \in {[kind |-> "absent", captionTracks |-> <<>>],
            [kind |-> "norenderer", captionTracks |-> <<>>]}
           \cup {[kind |-> "renderer", captionTracks |-> ts] :
                   ts \in SeqsUpTo(TrackProfiles, MaxTracks)}}

MonthsAgo == {0, 1, 3, 12, 15, 26}

MonthRequests ==
  {Req(DefaultUrl, "ok",
       [PageOf([DefaultPR EXCEPT !.publishDate = None, !.uploadDate = None])
          EXCEPT !.info = Some([views |-> <<"7"," ","v","i","e","w","s">>,
                                date |-> RelDate(n, "month")]),
                 !.tooltip = None],
       today) :
     n \in MonthsAgo, today \in Todays \cup {[y |-> 2025, m |-> 6, d |-> 15]}}

Requests ==
  UrlRequests \cup FetchRequests \cup ScriptRequests \cup ViewRequests
  \cup DateRequests \cup MonthRequests \cup TitleRequests \cup CaptionRequests

\****************************************************************************
\* The dev server serving GetVideoInfo requests (handle_get_video_info), one
\* after the other.
\****************************************************************************
VARIABLES
  request,      \* the request being served: its video_url and what the
                \* network returns for the page
  pc,           \* "start", "constructed" (the downloader exists), "done"
  downloader,   \* None, or Some(the YouTubeSubtitleDownloader of the request)
  pageFetches,  \* calls of _fetch_page_html for the request
  extractions,  \* calls of _extract_yt_initial_player_response for the request
  trackFetches, \* calls of _fetch_subtitle_xml for the request
  response,     \* None, or Some(the JSON response sent)
  log,          \* what callers have observed: [cause, returned, response]
  sub,          \* None, or Some(what the call of get_subtitle_srt did)
  header,       \* None, or Some(the text format_metadata_header returned)
  api           \* None, or the yt-dlp calls and the responses of a handler
                \* of src/api (get_video_info.py, get_subtitles.py)

vars ==
  <<request, pc, downloader, pageFetches, extractions, trackFetches, response, log,
    sub, header, api>>

\* send_json_error(status, message)
ErrorResponse(status, message) ==
  [status |-> status, error |-> message, metadata |-> None, tracks |-> <<>>]

\* send_json_response(200, {"metadata": ..., "tracks": ...})
InfoResponse(metadata, tracks) ==
  [status |-> 200, error |-> "", metadata |-> metadata, tracks |-> tracks]

\* Why a request has no tracks to show, read off its input: the page could
\* not be fetched, no player response could be extracted from it, or the
\* player response has no captions section; "other" otherwise.
Cause(req) ==
  IF req.net.fetch # "ok" THEN "fetch_failed"
  ELSE IF ExtractPlayerResponse(req.net.page.scripts) = None THEN "extract_failed"
  ELSE IF Val(ExtractPlayerResponse(req.net.page.scripts)).captions.kind = "absent"
  THEN "no_captions"
  ELSE "other"

Init ==
  /\ request \in Requests
  /\ pc = "start"
  /\ downloader = None
  /\ pageFetches = 0
  /\ extractions = 0
  /\ trackFetches = 0
  /\ response = None
  /\ log = {}
  /\ sub = None
  /\ header = None
  /\ api = None

\* A mutant of the constructor: a URL without a video id is let through
\* (the "if not self.video_id: raise" is missing) with an empty id.
ConstructLenient(url, id) ==
  IF id = None THEN Some(NewDownloader(url, <<>>))
  ELSE Some(NewDownloader(url, Val(id)))

\* __init__, id being what _extract_video_id returned: Some(the downloader),
\* or None when it raises ValueError.
Construct(url, id) ==
  IF id = None THEN None ELSE Some(NewDownloader(url, Val(id)))

\* handle_get_video_info, lines 51-56 and 70-71, dl being what the
\* constructor gave.
ConstructedOrRefused(dl) ==
  IF request.url = <<>>
  THEN /\ response' = Some(ErrorResponse(400, "video_url is required"))
       /\ pc' = "done"
       /\ UNCHANGED downloader
  ELSE IF dl = None
  THEN /\ response' =
            Some(ErrorResponse(400, "Invalid YouTube URL or could not extract video ID."))
       /\ pc' = "done"
       /\ UNCHANGED downloader
  ELSE /\ downloader' = dl
       /\ pc' = "constructed"
       /\ UNCHANGED response

\* handle_get_video_info, lines 47-56: the body is read, video_url checked
\* and the downloader constructed.
HandleConstruct ==
  /\ pc = "start"
  /\ ConstructedOrRefused(Construct(request.url, ExtractVideoId(request.url)))
  /\ UNCHANGED <<request, pageFetches, extractions, trackFetches, log, sub, header, api>>

\* The response of lines 59-74 to what get_available_tracks did.
VideoInfoResponse(r) ==
  IF r.ret = "raise"
  THEN ErrorResponse(500, "Internal server error")
  ELSE IF r.tracks = <<>>
  THEN ErrorResponse(404, "No subtitles found for this video")
  ELSE InfoResponse(r.d.video_metadata, r.tracks)

\* What the caller has observed once the response resp is sent.
Observed(cause, r, resp) ==
  IF cause = "other" \/ r.ret = "raise" THEN log
  ELSE log \cup {[cause |-> cause, returned |-> r.tracks, response |-> resp]}

\* lines 59-74, r being what get_available_tracks did.
Respond(r) ==
  /\ downloader' = Some(r.d)
  /\ pageFetches' = pageFetches + r.fetches
  /\ extractions' = extractions + r.extractions
  /\ response' = Some(VideoInfoResponse(r))
  /\ log' = Observed(Cause(request), r, VideoInfoResponse(r))

\* handle_get_video_info, lines 57-74: get_available_tracks and the response.
HandleTracks ==
  /\ pc = "constructed"
  /\ Respond(GetAvailableTracks(Val(downloader), request.net))
  /\ pc' = "done"
  /\ UNCHANGED <<request, trackFetches, sub, header, api>>

Next == HandleConstruct \/ HandleTracks

Spec == Init /\ [][Next]_vars

\****************************************************************************
\* A session: the dev server serves one GetVideoInfo request after the other,
\* and the caller keeps what each one answered.
\****************************************************************************
SessionRequests ==
  FetchRequests \cup ScriptRequests
  \cup {Req(u, "ok", PageOf(DefaultPR), DefaultToday) : u \in OtherUrls}
  \cup {Req(DefaultUrl, "ok", PageOf([DefaultPR EXCEPT !.captions = c]), DefaultToday) :
          c \in {[kind |-> "absent", captionTracks |-> <<>>],
                 [kind |-> "norenderer", captionTracks |-> <<>>]}
                \cup {[kind |-> "renderer", captionTracks |-> ts] :
                        ts \in SeqsUpTo(TrackProfiles, 1)}}

InitSession ==
  /\ request \in SessionRequests
  /\ pc = "start"
  /\ downloader = None
  /\ pageFetches = 0
  /\ extractions = 0
  /\ trackFetches = 0
  /\ response = None
  /\ log = {}
  /\ sub = None
  /\ header = None
  /\ api = None

\* The next request arrives: a new handler, a new downloader.
NextRequest ==
  /\ pc = "done"
  /\ request' \in SessionRequests
  /\ pc' = "start"
  /\ downloader' = None
  /\ pageFetches' = 0
  /\ extractions' = 0
  /\ trackFetches' = 0
  /\ response' = None
  /\ UNCHANGED <<log, sub, header, api>>

NextSession == HandleConstruct \/ HandleTracks \/ NextRequest

SpecSession == InitSession /\ [][NextSession]_vars

\****************************************************************************
\* Subtitles: seconds_to_srt_time, _fetch_subtitle_xml,
\* _parse_subtitle_xml_to_srt and get_subtitle_srt.
\*
\* A time attribute is [kind, ms]: kind "absent" (no such attribute), "num"
\* (a decimal text, ms the milliseconds it denotes), "empty" (the text ""),
\* "bad" (a text float() refuses) or "nan" (the text "nan").  A float is
\* [nan, a, b]: NaN, or float(a/1000) + float(b/1000) with b = 0 for a value
\* that was only parsed.  The content of an element is [text, brs]: its
\* leading text and, for each <br> child, the text that follows it.
\****************************************************************************
Attr(kind, ms) == [kind |-> kind, ms |-> ms]

Absent == Attr("absent", 0)

Num(ms) == Attr("num", ms)

Float(nan, a, b) == [nan |-> nan, a |-> a, b |-> b]

\* The pairs (a, b) of the time values used for which the binary float
\* float(a/1000) + float(b/1000) lies below the decimal a/1000 + b/1000 by
\* enough that the truncations of seconds_to_srt_time lose one millisecond.
TruncLoss ==
  {<<-3000, 4100>>, <<-3000, 3599999>>, <<0, 2300>>, <<0, 4100>>, <<0, 3599999>>,
   <<700, 700>>, <<700, 4100>>, <<700, 3599999>>, <<1000, 2300>>, <<1000, 4100>>,
   <<1000, 3599999>>, <<1500, 2300>>, <<1500, 4100>>, <<1500, 3599999>>,
   <<2000, 2300>>, <<2000, 4100>>, <<2000, 3599999>>, <<2300, 0>>, <<2300, 1000>>,
   <<2300, 1500>>, <<2300, 2000>>, <<2300, 2300>>, <<2300, 4100>>,
   <<2300, 3599999>>, <<4100, -3000>>, <<4100, 0>>, <<4100, 700>>, <<4100, 1000>>,
   <<4100, 1500>>, <<4100, 2000>>, <<4100, 2300>>, <<4100, 4100>>,
   <<4100, 3599999>>, <<3599999, -3000>>, <<3599999, 0>>, <<3599999, 700>>,
   <<3599999, 1000>>, <<3599999, 1500>>, <<3599999, 2000>>, <<3599999, 2300>>,
   <<3599999, 4100>>, <<3599999, 3599999>>}

\* The milliseconds the four truncated fields of lines 122-125 add up to.
WrittenMillis(x) ==
  IF x.a + x.b < 0 THEN 0
  ELSE x.a + x.b - (IF <<x.a, x.b>> \in TruncLoss THEN 1 ELSE 0)

\* f"{n:03}"
Pad3(n) == <<DigitChar((n \div 100) % 10), DigitChar((n \div 10) % 10), DigitChar(n % 10)>>

\* line 126: f"{hours:02}:{minutes:02}:{secs:02},{milliseconds:03}"
FormatSrtTime(t) ==
  Pad2(t \div 3600000) \o <<":">> \o Pad2((t % 3600000) \div 60000) \o <<":">>
  \o Pad2((t % 60000) \div 1000) \o <<",">> \o Pad3(t % 1000)

\* seconds_to_srt_time(seconds_float) for a float that is not NaN.
seconds_to_srt_time(x) == FormatSrtTime(WrittenMillis(x))

\* line 383: element.get("start") or element.get("begin")
StartStr(e) == IF e.start.kind \in {"absent", "empty"} THEN e.begin ELSE e.start

\* float(s) returns: it raises ValueError for "" and for a text that is no
\* number.
Parses(s) == s.kind \in {"num", "nan"}

\* A mutant of lines 393-396: the end attribute is looked at before dur.
TimingEndFirst(e, s) ==
  IF s.kind = "absent" \/ ~Parses(s) THEN None
  ELSE IF e.end.kind # "absent"
  THEN (IF Parses(e.end)
        THEN Some([start_sec |-> Float(s.kind = "nan", s.ms, 0),
                   end_sec |-> Float(e.end.kind = "nan", e.end.ms, 0)])
        ELSE None)
  ELSE IF e.dur.kind # "absent"
  THEN (IF Parses(e.dur)
        THEN Some([start_sec |-> Float(s.kind = "nan", s.ms, 0),
                   end_sec |-> Float(s.kind = "nan" \/ e.dur.kind = "nan", s.ms, e.dur.ms)])
        ELSE None)
  ELSE None

\* lines 387-402: Some([start_sec, end_sec]), or None when the element is
\* skipped (no start, no dur and no end, or a ValueError of float()).
Timing(e, s) ==
  IF s.kind = "absent" \/ ~Parses(s) THEN None
  ELSE IF e.dur.kind # "absent"
  THEN (IF Parses(e.dur)
        THEN Some([start_sec |-> Float(s.kind = "nan", s.ms, 0),
                   end_sec |-> Float(s.kind = "nan" \/ e.dur.kind = "nan", s.ms, e.dur.ms)])
        ELSE None)
  ELSE IF e.end.kind # "absent"
  THEN (IF Parses(e.end)
        THEN Some([start_sec |-> Float(s.kind = "nan", s.ms, 0),
                   end_sec |-> Float(e.end.kind = "nan", e.end.ms, 0)])
        ELSE None)
  ELSE None

RECURSIVE BrParts(_)
\* lines 407-411: for each <br>, "\n" and its stripped tail.
BrParts(brs) ==
  IF brs = <<>> THEN <<>>
  ELSE <<"\n">> \o Strip(Head(brs)) \o BrParts(Tail(brs))

\* The end of the match of \n\s*\n that starts at the "\n" at position i: the
\* last "\n" of the white space that follows it (0 when there is none).
CollapseEnd(s, i) ==
  LET stop == SkipSpaces(s, i + 1)
      ends == {k \in (i + 1)..(stop - 1) : s[k] = "\n"}
  IN IF ends = {} THEN 0 ELSE CHOOSE k \in ends : \A j \in ends : j <= k

RECURSIVE Collapse(_, _)
\* line 414: re.sub(r'\n\s*\n', '\n', content), from position i on.
Collapse(s, i) ==
  IF i > Len(s) THEN <<>>
  ELSE IF s[i] = "\n" /\ CollapseEnd(s, i) # 0
  THEN <<"\n">> \o Collapse(s, CollapseEnd(s, i) + 1)
  ELSE <<s[i]>> \o Collapse(s, i + 1)

\* lines 404-414: the text of itertext(), the parts of the <br> loop, joined,
\* stripped, blank lines collapsed.
ContentOf(e) ==
  Collapse(Strip(e.content.text \o Concat(e.content.brs) \o BrParts(e.content.brs)), 1)

RECURSIVE StrOfNat(_)
\* str(n) for n >= 0
StrOfNat(n) ==
  IF n < 10 THEN <<DigitChar(n)>> ELSE StrOfNat(n \div 10) \o <<DigitChar(n % 10)>>

\* A mutant of the index: the cues emitted so far are counted, not the
\* elements.
CueIndexEmitted(i, srt_lines) == Len(srt_lines) \div 4 + 1

\* line 417: i + 1, i being the counter of enumerate(text_elements).
CueIndex(i, srt_lines) == i + 1

\* lines 417-420: the four lines appended for a cue.
CueLines(n, timing, content) ==
  <<StrOfNat(n),
    seconds_to_srt_time(timing.start_sec) \o <<" ","-","-",">"," ">>
      \o seconds_to_srt_time(timing.end_sec),
    content,
    <<>>>>

\* The formatting of the cue raises: int() of a NaN (ValueError, outside the
\* try of lines 391-402).
FormatRaises(timing) == timing.start_sec.nan \/ timing.end_sec.nan

RECURSIVE ConvertElements(_, _, _)
\* lines 382-420: the loop over text_elements from counter i on, srt_lines
\* being the lines so far; [raised, srt_lines].
ConvertElements(text_elements, i, srt_lines) ==
  IF i >= Len(text_elements) THEN [raised |-> FALSE, srt_lines |-> srt_lines]
  ELSE IF Timing(text_elements[i + 1], StartStr(text_elements[i + 1])) = None
          \/ ContentOf(text_elements[i + 1]) = <<>>
  THEN ConvertElements(text_elements, i + 1, srt_lines)
  ELSE IF FormatRaises(Val(Timing(text_elements[i + 1], StartStr(text_elements[i + 1]))))
  THEN [raised |-> TRUE, srt_lines |-> srt_lines]
  ELSE ConvertElements(text_elements, i + 1,
         srt_lines \o CueLines(CueIndex(i, srt_lines),
                               Val(Timing(text_elements[i + 1],
                                          StartStr(text_elements[i + 1]))),
                               ContentOf(text_elements[i + 1])))

RECURSIVE JoinLines(_)
\* "\n".join(srt_lines)
JoinLines(lines) ==
  IF lines = <<>> THEN <<>>
  ELSE IF Len(lines) = 1 THEN lines[1]
  ELSE lines[1] \o <<"\n">> \o JoinLines(Tail(lines))

IsTextElement(e) == e.tag = "text"

IsPElement(e) == e.tag = "p"

IsTextOrPElement(e) == e.tag \in {"text", "p"}

\* A mutant of the selection: <text> and <p> elements are taken together.
SelectedElementsBoth(elements) == SelectSeq(elements, IsTextOrPElement)

\* lines 378-380: root.findall(".//text"), or root.findall(".//p") when that
\* is empty.
SelectedElements(elements) ==
  IF SelectSeq(elements, IsTextElement) # <<>>
  THEN SelectSeq(elements, IsTextElement)
  ELSE SelectSeq(elements, IsPElement)

\* lines 422-433, c being what the loop gave: the SRT text, "" when no line
\* was emitted, None when the loop raised.
ConverterResult(c) ==
  [ret |-> IF c.raised THEN None
           ELSE IF c.srt_lines = <<>> THEN Some(<<>>)
           ELSE Some(JoinLines(c.srt_lines)),
   srt_lines |-> c.srt_lines]

\* _parse_subtitle_xml_to_srt(xml_text): None when ET.fromstring raises
\* ParseError.
ParseSubtitleXmlToSrt(xml_text) ==
  IF xml_text.kind # "xml" THEN [ret |-> None, srt_lines |-> <<>>]
  ELSE ConverterResult(ConvertElements(SelectedElements(xml_text.elements), 0, <<>>))

\* A mutant of the test of line 444: "not xml_content", the strip() forgotten.
IsBlankUnstripped(xml_text) == xml_text.kind = "raw" /\ xml_text.raw = <<>>

\* line 444: not xml_content.strip()
IsBlank(xml_text) == xml_text.kind = "raw" /\ Strip(xml_text.raw) = <<>>

\* What a call of get_subtitle_srt did: whether it raised, what it returned,
\* the calls of _fetch_subtitle_xml and of the converter, and the lines the
\* converter built.
SrtOutcome(raised, ret, fetches, conversions, srt_lines) ==
  [raised |-> raised, ret |-> ret, fetches |-> fetches,
   conversions |-> conversions, srt_lines |-> srt_lines]

\* lines 445-449, p being what the converter gave.
Converted(p) == SrtOutcome(FALSE, p.ret, 1, 1, p.srt_lines)

\* get_subtitle_srt(track_info), net being what the network gives for the
\* track URL: KeyError when track_info lacks a key that is read.
GetSubtitleSrt(track_info, net) ==
  IF ~({"name", "lang_code", "url"} \subseteq track_info.keys)
  THEN SrtOutcome(TRUE, None, 0, 0, <<>>)
  ELSE IF net.fetch # "ok" THEN SrtOutcome(FALSE, None, 1, 0, <<>>)
  ELSE IF IsBlank(net.body) THEN SrtOutcome(FALSE, Some(<<>>), 1, 0, <<>>)
  ELSE Converted(ParseSubtitleXmlToSrt(net.body))

\****************************************************************************
\* The inputs of get_subtitle_srt.
\****************************************************************************
\* The longest list of caption elements in a subtitle payload.
MaxElems == 3

Content(text, brs) == [text |-> text, brs |-> brs]

Element(tag, start, begin, dur, end, content) ==
  [tag |-> tag, start |-> start, begin |-> begin, dur |-> dur, end |-> end,
   content |-> content]

ElementProfiles ==
  {Element("text", Num(0), Absent, Num(2000), Absent, Content(<<"H","i">>, <<>>)),
   Element("text", Num(1500), Absent, Absent, Num(4100),
           Content(<<"A">>, <<<<"B">>>>)),
   Element("p", Absent, Num(2300), Num(700), Num(1000), Content(<<"P">>, <<>>)),
   Element("text", Absent, Absent, Num(2000), Absent, Content(<<"X">>, <<>>)),
   Element("text", Num(1500), Absent, Absent, Absent, Content(<<"X">>, <<>>)),
   Element("text", Attr("bad", 0), Num(0), Num(2000), Absent, Content(<<"X">>, <<>>)),
   Element("text", Attr("empty", 0), Num(2300), Attr("empty", 0), Num(4100),
           Content(<<"X">>, <<>>)),
   Element("text", Num(0), Absent, Num(2000), Absent, Content(<<" ","\n">>, <<>>)),
   Element("text", Attr("nan", 0), Absent, Num(2000), Absent, Content(<<"N">>, <<>>)),
   Element("text", Attr("empty", 0), Num(1000), Num(2000), Absent, Content(<<"E">>, <<>>)),
   Element("text", Num(3599999), Absent, Num(-3000), Absent,
           Content(<<"Z"," ">>, <<<<>>, <<" ","z">>>>)),
   Element("other", Num(0), Absent, Num(2000), Absent, Content(<<"O">>, <<>>))}

XmlBody(elements) == [kind |-> "xml", raw |-> <<>>, elements |-> elements]

RawBody(raw) == [kind |-> "raw", raw |-> raw, elements |-> <<>>]

\* Bodies that are no XML document: empty, white space, and a text that is
\* not well-formed.
RawBodies == {RawBody(<<>>), RawBody(<<" ", "\n">>), RawBody(<<"<","t","t",">">>)}

Bodies == RawBodies \cup {XmlBody(es) : es \in SeqsUpTo(ElementProfiles, MaxElems)}

AllKeys == {"name", "url", "lang_code", "is_asr"}

TrackInfos == {[keys |-> AllKeys \ missing] : missing \in {{}, {"name"}, {"lang_code"}, {"url"}}}

SubRequest(track_info, fetch, body) ==
  [track_info |-> track_info, net |-> [fetch |-> fetch, body |-> body]]

SubRequests ==
  {SubRequest([keys |-> AllKeys], "ok", b) : b \in Bodies}
  \cup {SubRequest(t, f, b) : t \in TrackInfos, f \in {"ok", "error"},
                              b \in RawBodies \cup {XmlBody(es) : es \in SeqsUpTo(ElementProfiles, 1)}}

InitSubs ==
  /\ request \in SubRequests
  /\ pc = "constructed"
  /\ downloader = Some(NewDownloader(DefaultUrl, IdA))
  /\ pageFetches = 0
  /\ extractions = 0
  /\ trackFetches = 0
  /\ response = None
  /\ log = {}
  /\ sub = None
  /\ header = None
  /\ api = None

\* The call returned (or raised): r is what it did.
Returned(r) ==
  /\ sub' = Some(r)
  /\ trackFetches' = trackFetches + r.fetches

\* A call of get_subtitle_srt(track_info) on the downloader.
CallGetSubtitleSrt ==
  /\ pc = "constructed"
  /\ Returned(GetSubtitleSrt(request.track_info, request.net))
  /\ pc' = "done"
  /\ UNCHANGED <<request, downloader, pageFetches, extractions, response, log, header,
               api>>

NextSubs == CallGetSubtitleSrt

SpecSubs == InitSubs /\ [][NextSubs]_vars

\****************************************************************************
\* format_metadata_header (youtube_downloader.py, lines 128-147).  The texts
\* are strings; a value of the metadata dictionary is [kind, s, n]: the key is
\* "absent", or its value is "null", the string s ("str") or the integer n
\* ("int").
\****************************************************************************
JInt(kind, n) == [kind |-> kind, s |-> "", n |-> n]

RECURSIVE Text(_)
\* The string made of the characters chars.
Text(chars) == IF chars = <<>> THEN "" ELSE chars[1] \o Text(Tail(chars))

\* lines 131-138 and 141-142: if metadata.get(key): the part key = "value"
QuotedPart(key, j) ==
  IF j.kind = "str" /\ j.s # "" THEN <<key \o " = \"" \o j.s \o "\"">> ELSE <<>>

\* A mutant of lines 139-140: "if metadata.get('view_count'):", which drops
\* a count of 0.
ViewCountPartTruthy(j) ==
  IF j.kind = "int" /\ j.n # 0 THEN <<"view_count = " \o Text(StrOfNat(j.n))>> ELSE <<>>

\* lines 139-140: if metadata.get("view_count") is not None: view_count = n
ViewCountPart(j) ==
  IF j.kind = "int" THEN <<"view_count = " \o Text(StrOfNat(j.n))>> ELSE <<>>

\* The Markdown fence of three grave accents (lines 144, and 116 of
\* dev_server.py); a string of TLA+ cannot hold a grave accent, and tildes
\* stand for them.
Fence == "~~~"

\* lines 129-144: header_parts
HeaderParts(metadata) ==
  <<"[video]">>
  \o QuotedPart("title", metadata.title)
  \o QuotedPart("channel", metadata.channel)
  \o QuotedPart("url", metadata.url)
  \o QuotedPart("publish_date", metadata.publish_date)
  \o ViewCountPart(metadata.view_count)
  \o QuotedPart("description", metadata.description)
  \o <<"\n[transcript]\n\n" \o Fence>>

RECURSIVE JoinParts(_)
\* "\n".join(parts)
JoinParts(parts) ==
  IF parts = <<>> THEN ""
  ELSE IF Len(parts) = 1 THEN parts[1]
  ELSE parts[1] \o "\n" \o JoinParts(Tail(parts))

\* line 147
format_metadata_header(metadata) == JoinParts(HeaderParts(metadata))

\* The metadata dictionaries the header is formatted for.
HeaderMetadatas ==
  [title : JStrings("T"),
   channel : {Str("absent", ""), Str("str", ""), Str("str", "C")},
   url : {Str("absent", ""), Str("str", "https://youtu.be/x")},
   publish_date : {Str("null", ""), Str("str", "2020-01-02")},
   view_count : {JInt("absent", 0), JInt("null", 0), JInt("int", 0), JInt("int", 7),
                 JInt("int", 1200)},
   description : {Str("null", ""), Str("str", ""), Str("str", " "), Str("str", "D")}]

InitHeader ==
  /\ request \in HeaderMetadatas
  /\ pc = "start"
  /\ downloader = None
  /\ pageFetches = 0
  /\ extractions = 0
  /\ trackFetches = 0
  /\ response = None
  /\ log = {}
  /\ sub = None
  /\ header = None
  /\ api = None

\* A call of format_metadata_header(metadata).
CallFormatMetadataHeader ==
  /\ pc = "start"
  /\ header' = Some(format_metadata_header(request))
  /\ pc' = "done"
  /\ UNCHANGED <<request, downloader, pageFetches, extractions, trackFetches, response,
                 log, sub, api>>

NextHeader == CallFormatMetadataHeader

SpecHeader == InitHeader /\ [][NextHeader]_vars

\****************************************************************************
\* The handlers of src/api, built on yt-dlp.  What yt-dlp does is an input of
\* the request (net); api counts the calls made to it and keeps the responses
\* sent:
\*   extract_infos  calls of ydl.extract_info
\*   downloads      calls of ydl.download
\*   tmpdirs        temporary directories created
\*   sent           the responses begun (status line and headers sent), in order
\*   bodies         the response bodies written
\*   wire           what was written to the connection, in order: "status"
\*                  (send_response: the status line), the names of the
\*                  headers, "end" (end_headers) and "body"
\*   video_id, srt_content   the locals of do_POST of get_subtitles.py
\****************************************************************************
NewApi ==
  [extract_infos |-> 0, downloads |-> 0, tmpdirs |-> 0, sent |-> <<>>, bodies |-> 0,
   wire |-> <<>>, video_id |-> None, srt_content |-> None]

\* _send_cors_headers, lines 200-204 of get_subtitles.py and 130-134 of
\* get_video_info.py
CorsHeaders ==
  <<"Access-Control-Allow-Origin", "Access-Control-Allow-Methods",
    "Access-Control-Allow-Headers">>

\* _send_json_response up to end_headers (lines 188-191)
ResponseHead == <<"status">> \o CorsHeaders \o <<"Content-Type", "end">>

RECURSIVE Heads(_)
\* The heads of n responses whose bodies could not be written.
Heads(n) == IF n = 0 THEN <<>> ELSE ResponseHead \o Heads(n - 1)

\* do_OPTIONS of the dev server (dev_server.py, lines 38-42):
\* send_response(200), send_cors_headers() and end_headers().
DevOptionsWire == <<"status">> \o CorsHeaders \o <<"end">>

\* do_OPTIONS, lines 181-184 of get_subtitles.py and 111-114 of
\* get_video_info.py: _send_cors_headers() and end_headers(), send_response
\* is not called.
OptionsWire == CorsHeaders \o <<"end">>

\* _send_error(status_code, message)
ApiError(status, message) ==
  [status |-> status, error |-> message, subtitle_content |-> None,
   track_info |-> None, metadata |-> None, tracks |-> <<>>]

\* _send_json_response, lines 186-194 of get_subtitles.py and 116-124 of
\* get_video_info.py: the status line and the headers are sent, then the body
\* is written.  write is "raise" when wfile.write raises (the client is gone);
\* resends are then the responses that the except clauses around the call
\* send in turn, each failing the same way, until the exception leaves
\* do_POST.
Send(a, first, resends, write) ==
  IF write = "ok"
  THEN [a EXCEPT !.sent = Append(@, first), !.bodies = @ + 1,
                 !.wire = @ \o ResponseHead \o <<"body">>]
  ELSE [a EXCEPT !.sent = Append(@, first) \o resends,
                 !.wire = @ \o Heads(1 + Len(resends))]

\* get_subtitles.py, lines 174-179: except Exception of do_POST
SubsOuterError == ApiError(500, "Internal server error: ")

\* get_video_info.py, lines 104-109: except Exception of do_POST
InfoOuterError == ApiError(500, "Internal server error: Failed to process video.")

\* The characters of the string s.
Chars(s) == [i \in 1..Len(s) |-> SubSeq(s, i, i)]

\* datetime.strptime(s, '%Y%m%d').strftime('%Y-%m-%d') for a string s of eight
\* digits or of no digit at all: Some(the date), None on ValueError.
StrptimeYmd(s) ==
  IF Len(s) = 8 /\ \A i \in 1..8 : IsDigit(SubSeq(s, i, i))
  THEN IF /\ NatOfDigits(Chars(SubSeq(s, 1, 4))) >= 1
          /\ NatOfDigits(Chars(SubSeq(s, 5, 6))) \in 1..12
          /\ NatOfDigits(Chars(SubSeq(s, 7, 8)))
               \in 1..DaysInMonth(NatOfDigits(Chars(SubSeq(s, 1, 4))),
                                  NatOfDigits(Chars(SubSeq(s, 5, 6))))
       THEN Some(SubSeq(s, 1, 4) \o "-" \o SubSeq(s, 5, 6) \o "-" \o SubSeq(s, 7, 8))
       ELSE None
  ELSE None

\* get_subtitles.py lines 124-130, get_video_info.py lines 46-53: the
\* publish date of an upload_date (None: the key is absent or null).
UploadPublishDate(upload_date) ==
  IF upload_date = None \/ upload_date = Some("") THEN None
  ELSE StrptimeYmd(Val(upload_date))

\* str.strip() of a string: the bounds of what is left.
RECURSIVE StripFrom(_, _)
StripFrom(s, i) ==
  IF i > Len(s) THEN i
  ELSE IF IsSpace(SubSeq(s, i, i)) THEN StripFrom(s, i + 1) ELSE i

RECURSIVE StripTo(_, _)
StripTo(s, j) ==
  IF j < 1 THEN j
  ELSE IF IsSpace(SubSeq(s, j, j)) THEN StripTo(s, j - 1) ELSE j

StripText(s) == SubSeq(s, StripFrom(s, 1), StripTo(s, Len(s)))

\****************************************************************************
\* do_POST of get_subtitles.py.  The request is [body, video_url, track_info,
\* include_metadata, net]; track_info is [kind "absent" | "dict", keys,
\* lang_code, is_asr]; net is what yt-dlp and the file system do:
\*   pre       extract_info of line 50: "raise", "none" (no info), "noid", "ok"
\*   download  ydl.download of line 74: "raise" or "ok"
\*   files     os.listdir(tmpdir) after the download; a file is
\*             [has_id, suffix, text]: suffix is "lang" (.<lang>.srt), "asr"
\*             (.<lang>.asr.srt), "srt" (any other .srt) or "other"
\*   read      open/read of line 105: "raise" or "ok"
\*   info      extract_info of line 122: [kind "raise" | "none" | "dict", dict]
\*   write     wfile.write of a response body: "raise" or "ok"
\****************************************************************************
\* A mutant of the test of line 36: "'is_asr' not in track_info" is missing.
SubsValidationLangOnly(req) ==
  IF req.body = "bad" THEN Some(ApiError(400, "Expecting value"))
  ELSE IF req.video_url = ""
  THEN Some(ApiError(400, "video_url is required"))
  ELSE IF \/ req.track_info.kind = "absent"
          \/ req.track_info.keys = {}
          \/ "lang_code" \notin req.track_info.keys
  THEN Some(ApiError(400, "track_info with lang_code and is_asr is required"))
  ELSE None

\* lines 22-38: the body is parsed and validated; None when it is accepted.
SubsValidation(req) ==
  IF req.body = "bad" THEN Some(ApiError(400, "Expecting value"))
  ELSE IF req.video_url = ""
  THEN Some(ApiError(400, "video_url is required"))
  ELSE IF \/ req.track_info.kind = "absent"
          \/ req.track_info.keys = {}
          \/ "lang_code" \notin req.track_info.keys
          \/ "is_asr" \notin req.track_info.keys
  THEN Some(ApiError(400, "track_info with lang_code and is_asr is required"))
  ELSE None

\* do_OPTIONS, lines 181-184: the answer to a CORS preflight request.
ApiSubsOptions ==
  /\ pc = "start"
  /\ api = NewApi
  /\ request.method = "OPTIONS"
  /\ api' = [api EXCEPT !.wire = @ \o OptionsWire]
  /\ pc' = "done"
  /\ UNCHANGED <<request, downloader, pageFetches, extractions, trackFetches, response,
                 log, sub, header>>

\* lines 21-41
ApiSubsValidate ==
  /\ pc = "start"
  /\ request.method = "POST"
  /\ api = NewApi
  /\ IF SubsValidation(request) # None
     THEN /\ api' = Send(api, Val(SubsValidation(request)),
                          IF request.body = "bad" THEN <<>> ELSE <<SubsOuterError>>,
                          request.net.write)
          /\ pc' = "done"
     ELSE /\ pc' = "prefetch"
          /\ UNCHANGED api
  /\ UNCHANGED <<request, downloader, pageFetches, extractions, trackFetches, response,
                 log, sub, header>>

\* A mutant of lines 51-54: the "if not video_id" test is missing, and only an
\* exception of the pre-fetch is answered with an error.
PreFetchErrorRaiseOnly(pre) ==
  IF pre = "raise" THEN Some(ApiError(500, "Error fetching video ID: ")) ELSE None

\* lines 47-57: the video id is fetched first; what is sent, None when the id
\* is there.
PreFetchError(pre) ==
  IF pre = "raise" THEN Some(ApiError(500, "Error fetching video ID: "))
  ELSE IF pre \in {"none", "noid"} THEN Some(ApiError(500, "Failed to extract video ID."))
  ELSE None

\* lines 47-57: the "Failed to extract video ID." of line 53 is sent inside
\* the try, and an exception of it is caught at line 55; the response of line
\* 56 is sent inside the try of do_POST only.
PreFetchResends(pre) ==
  IF pre = "raise" THEN <<SubsOuterError>>
  ELSE <<ApiError(500, "Error fetching video ID: "), SubsOuterError>>

\* lines 47-57
ApiSubsPreFetch ==
  /\ pc = "prefetch"
  /\ IF PreFetchError(request.net.pre) # None
     THEN /\ api' = Send([api EXCEPT !.extract_infos = @ + 1],
                          Val(PreFetchError(request.net.pre)),
                          PreFetchResends(request.net.pre), request.net.write)
          /\ pc' = "done"
     ELSE /\ api' = [api EXCEPT !.extract_infos = @ + 1, !.video_id = Some("vid")]
          /\ pc' = "download"
  /\ UNCHANGED <<request, downloader, pageFetches, extractions, trackFetches, response,
                 log, sub, header>>

RECURSIVE FirstFile(_, _)
\* The "for f in os.listdir(tmpdir): if ...: found_sub_file = f; break" of
\* lines 83-101, wanted being the suffixes looked for and any_id telling that
\* the video id need not be in the name: Some(the file) or None.
FirstFile(files, want) ==
  IF files = <<>> THEN None
  ELSE IF Head(files).suffix \in want.suffixes /\ (want.any_id \/ Head(files).has_id)
  THEN Some(Head(files))
  ELSE FirstFile(Tail(files), want)

\* lines 82-101: found_sub_file
FoundSubFile(files, is_asr, by_name, by_asr_name, by_srt) ==
  IF by_name # None THEN by_name
  ELSE IF is_asr /\ by_asr_name # None THEN by_asr_name
  ELSE by_srt

\* lines 72-113, found being found_sub_file: the outcome of the download.
\* The "not found" response of line 108 is sent inside the try, and an
\* exception of it is caught at line 111; the response of line 112 is sent
\* inside the try of do_POST only.
DownloadOutcome(net, found) ==
  IF net.download = "raise"
  THEN [srt |-> None, error |-> Some(ApiError(500, "Failed to download or read subtitles: ")),
        resends |-> <<SubsOuterError>>]
  ELSE IF found = None
  THEN [srt |-> None,
        error |-> Some(ApiError(500, "Subtitle file for language 'en' not found")),
        resends |-> <<ApiError(500, "Failed to download or read subtitles: "),
                      SubsOuterError>>]
  ELSE IF net.read = "raise"
  THEN [srt |-> None, error |-> Some(ApiError(500, "Failed to download or read subtitles: ")),
        resends |-> <<SubsOuterError>>]
  ELSE [srt |-> Some(Val(found).text), error |-> None, resends |-> <<>>]

\* lines 60-117, o being the outcome of the download.
Downloaded(o) ==
  IF o.error # None
  THEN /\ api' = Send([api EXCEPT !.tmpdirs = @ + 1, !.downloads = @ + 1],
                       Val(o.error), o.resends, request.net.write)
       /\ pc' = "done"
  ELSE /\ api' = [api EXCEPT !.tmpdirs = @ + 1, !.downloads = @ + 1,
                             !.srt_content = o.srt]
       /\ pc' = "respond"

\* lines 60-117: the temporary directory, the download and the file read.
ApiSubsDownload ==
  /\ pc = "download"
  /\ Downloaded(DownloadOutcome(request.net,
       FoundSubFile(request.net.files, request.track_info.is_asr,
                    FirstFile(request.net.files, [suffixes |-> {"lang"}, any_id |-> FALSE]),
                    FirstFile(request.net.files, [suffixes |-> {"asr"}, any_id |-> FALSE]),
                    FirstFile(request.net.files,
                              [suffixes |-> {"lang", "asr", "srt"}, any_id |-> TRUE]))))
  /\ UNCHANGED <<request, downloader, pageFetches, extractions, trackFetches, response,
                 log, sub, header>>

\* str(v) of an optional string: "None" for None.
PyStr(o) == IF o = None THEN "None" ELSE Val(o)

\* str(v) of an optional integer.
PyStrInt(o) == IF o = None THEN "None" ELSE Text(StrOfNat(Val(o)))

\* lines 132-140: video_metadata; info.channel is
\* info_dict.get('channel', info_dict.get('uploader')).
ApiSubsMetadata(info) ==
  [title |-> info.title, channel |-> info.channel, description |-> info.description,
   url |-> info.webpage_url, video_id |-> info.id, view_count |-> info.view_count,
   publish_date |-> UploadPublishDate(info.upload_date)]

\* lines 143-153: the header and the content; the keys all exist, and 'N/A'
\* is never used.
WithHeader(md, srt_content) ==
  Fence \o "text"
  \o "\nTitle: " \o PyStr(md.title)
  \o "\nChannel: " \o PyStr(md.channel)
  \o "\nPublish Date: " \o PyStr(md.publish_date)
  \o "\nViews: " \o PyStrInt(md.view_count)
  \o "\nVideo URL: " \o PyStr(md.url)
  \o "\n\n" \o StripText(srt_content) \o "\n" \o Fence

\* A mutant of lines 119 and 167: include_metadata is not looked at, the
\* metadata are always fetched and returned.
SubsResponseIgnoringFlag(req, srt_content) ==
  IF req.net.info.kind \in {"raise", "none"}
  THEN [status |-> 200, error |-> "", subtitle_content |-> Some(StripText(srt_content)),
        track_info |-> Some(req.track_info), metadata |-> None, tracks |-> <<>>]
  ELSE [status |-> 200, error |-> "",
        subtitle_content |-> Some(WithHeader(ApiSubsMetadata(req.net.info.dict), srt_content)),
        track_info |-> Some(req.track_info),
        metadata |-> Some(ApiSubsMetadata(req.net.info.dict)), tracks |-> <<>>]

\* lines 119-170: the response data.  An exception of the metadata fetch
\* (extract_info raises, or gives None, on which .get raises) leaves the bare
\* content and no metadata.
SubsResponse(req, srt_content) ==
  IF ~req.include_metadata \/ req.net.info.kind \in {"raise", "none"}
  THEN [status |-> 200, error |-> "", subtitle_content |-> Some(StripText(srt_content)),
        track_info |-> Some(req.track_info), metadata |-> None, tracks |-> <<>>]
  ELSE [status |-> 200, error |-> "",
        subtitle_content |-> Some(WithHeader(ApiSubsMetadata(req.net.info.dict), srt_content)),
        track_info |-> Some(req.track_info),
        metadata |-> Some(ApiSubsMetadata(req.net.info.dict)), tracks |-> <<>>]

\* lines 119-170: the metadata are fetched when asked for, and the response
\* is sent.
ApiSubsRespond ==
  /\ pc = "respond"
  /\ api' = Send([api EXCEPT
                     !.extract_infos = IF request.include_metadata THEN @ + 1 ELSE @],
                  SubsResponse(request, Val(api.srt_content)), <<SubsOuterError>>,
                  request.net.write)
  /\ pc' = "done"
  /\ UNCHANGED <<request, downloader, pageFetches, extractions, trackFetches, response,
                 log, sub, header>>

\* The inputs of the handler.
SubFile(has_id, suffix, text) == [has_id |-> has_id, suffix |-> suffix, text |-> text]

SubFiles ==
  {SubFile(TRUE, "lang", "1\n00:00:00,000 --> 00:00:01,000\nHi\n\n"),
   SubFile(TRUE, "asr", " 1\n00:00:00,000 --> 00:00:01,000\nAuto\n"),
   SubFile(FALSE, "srt", ""),
   SubFile(TRUE, "other", "x")}

MaxFiles == 2

ApiTrackInfo(kind, keys, is_asr) ==
  [kind |-> kind, keys |-> keys, lang_code |-> "en", is_asr |-> is_asr]

DefaultTrackInfo == ApiTrackInfo("dict", {"lang_code", "is_asr", "name"}, FALSE)

InfoDict(title, upload_date, view_count) ==
  [title |-> title, channel |-> Some("Ch"), description |-> Some("Desc"),
   webpage_url |-> Some("https://youtu.be/vid"), id |-> Some("vid"),
   view_count |-> view_count, upload_date |-> upload_date]

InfoDicts ==
  {InfoDict(t, u, v) : t \in {None, Some("T")},
                       u \in {None, Some("20230101"), Some("20231301"), Some("soon")},
                       v \in {None, Some(0), Some(1000)}}

\* What an extract_info call gave: it raised, returned None, or the dictionary.
Info(kind, dict) == [kind |-> kind, dict |-> dict]

DefaultInfoDict == InfoDict(Some("T"), Some("20230101"), Some(1000))

DefaultInfo == Info("dict", DefaultInfoDict)

YtDlp(pre, download, files, read, info) ==
  [pre |-> pre, download |-> download, files |-> files, read |-> read, info |-> info,
   write |-> "ok"]

DefaultFiles == <<SubFile(TRUE, "lang", "1\n00:00:00,000 --> 00:00:01,000\nHi\n\n")>>

ApiSubsRequest(body, video_url, track_info, include_metadata, net) ==
  [method |-> "POST", body |-> body, video_url |-> video_url, track_info |-> track_info,
   include_metadata |-> include_metadata, net |-> net]

\* A CORS preflight request: it has no body.
OptionsRequest ==
  [ApiSubsRequest("none", "", ApiTrackInfo("absent", {}, FALSE), FALSE,
                  YtDlp("ok", "ok", DefaultFiles, "ok", DefaultInfo))
     EXCEPT !.method = "OPTIONS"]

ApiSubsRequests ==
  {ApiSubsRequest(b, u, ApiTrackInfo(k[1], k[2], FALSE), TRUE,
                  YtDlp("ok", "ok", DefaultFiles, "ok", DefaultInfo)) :
     b \in {"json", "bad"}, u \in {"", "https://youtu.be/vid"},
     k \in {<<"absent", {}>>, <<"dict", {}>>, <<"dict", {"lang_code"}>>,
            <<"dict", {"is_asr"}>>, <<"dict", {"lang_code", "is_asr"}>>}}
  \cup {ApiSubsRequest("json", "https://youtu.be/vid", DefaultTrackInfo, im,
                       YtDlp(p, d, DefaultFiles, r, DefaultInfo)) :
          im \in BOOLEAN, p \in {"raise", "none", "noid", "ok"}, d \in {"raise", "ok"},
          r \in {"raise", "ok"}}
  \cup {ApiSubsRequest("json", "https://youtu.be/vid",
                       ApiTrackInfo("dict", {"lang_code", "is_asr"}, asr), FALSE,
                       YtDlp("ok", "ok", fs, "ok", DefaultInfo)) :
          asr \in BOOLEAN, fs \in SeqsUpTo(SubFiles, MaxFiles)}
  \cup {ApiSubsRequest("json", "https://youtu.be/vid", DefaultTrackInfo, im,
                       YtDlp("ok", "ok", DefaultFiles, "ok", i)) :
          im \in BOOLEAN, i \in {Info("raise", DefaultInfoDict), Info("none", DefaultInfoDict)}
                                \cup {Info("dict", d) : d \in InfoDicts}}
  \cup {ApiSubsRequest(b, u, t, TRUE,
                       [YtDlp(p, "ok", fs, "ok", DefaultInfo) EXCEPT !.write = "raise"]) :
          b \in {"json", "bad"}, u \in {"", "https://youtu.be/vid"},
          t \in {DefaultTrackInfo, ApiTrackInfo("absent", {}, FALSE)},
          p \in {"raise", "noid", "ok"}, fs \in {<<>>, DefaultFiles}}
  \cup {OptionsRequest}

InitApiSubs ==
  /\ request \in ApiSubsRequests
  /\ pc = "start"
  /\ downloader = None
  /\ pageFetches = 0
  /\ extractions = 0
  /\ trackFetches = 0
  /\ response = None
  /\ log = {}
  /\ sub = None
  /\ header = None
  /\ api = NewApi

NextApiSubs ==
  ApiSubsOptions \/ ApiSubsValidate \/ ApiSubsPreFetch \/ ApiSubsDownload \/ ApiSubsRespond

SpecApiSubs == InitApiSubs /\ [][NextApiSubs]_vars

\****************************************************************************
\* do_POST of get_video_info.py.  The request is [body, video_url, net];
\* net.info is what extract_info of line 39 gives, net.write what writing a
\* response body does.  The subtitles and the
\* automatic_captions of an info dictionary are [kind "absent" | "dict",
\* items]: items are the (lang_code, subs_list) pairs of the dictionary in its
\* order, a subs_list holding entries [ext, name].
\****************************************************************************
\* A mutant of the test of lines 70 and 82: any format is taken.
IsSubtitleFormatAny(ext) == TRUE

\* lines 70 and 82: sub_info.get('ext') in ['srv1', 'srv2', 'srv3', 'ttml', 'vtt']
IsSubtitleFormat(ext) == ext \in {"srv1", "srv2", "srv3", "ttml", "vtt"}

\* lines 71-76 (manual) and 83-88 (automatic): the track of an entry.
ApiTrack(lang_code, sub_info, is_asr) ==
  [name |-> IF is_asr
            THEN Some(PyStr(GetOr(sub_info.name, lang_code)) \o " (auto-generated)")
            ELSE GetOr(sub_info.name, lang_code),
   lang_code |-> lang_code,
   is_asr |-> is_asr,
   url |-> IF is_asr THEN "fake_url_" \o lang_code \o "_asr" ELSE "fake_url_" \o lang_code]

RECURSIVE AppendSubsList(_, _, _, _)
\* lines 69-76 and 81-88: for sub_info in subs_list
AppendSubsList(tracks, lang_code, subs_list, is_asr) ==
  IF subs_list = <<>> THEN tracks
  ELSE AppendSubsList(
         IF IsSubtitleFormat(Head(subs_list).ext)
         THEN Append(tracks, ApiTrack(lang_code, Head(subs_list), is_asr))
         ELSE tracks,
         lang_code, Tail(subs_list), is_asr)

RECURSIVE AppendItems(_, _, _)
\* lines 67-76 and 79-88: for lang_code, subs_list in ....items()
AppendItems(tracks, items, is_asr) ==
  IF items = <<>> THEN tracks
  ELSE AppendItems(AppendSubsList(tracks, Head(items).lang_code, Head(items).subs_list, is_asr),
                   Tail(items), is_asr)

\* lines 65-88: tracks
ApiTracks(info) ==
  AppendItems(AppendItems(<<>>, info.subtitles.items, FALSE),
              info.automatic_captions.items, TRUE)

\* lines 46-63: metadata
ApiInfoMetadata(info) ==
  [title |-> info.title, channel |-> info.channel, description |-> info.description,
   url |-> info.webpage_url, video_id |-> info.id, view_count |-> info.view_count,
   publish_date |-> UploadPublishDate(info.upload_date)]

\* A mutant of line 90: "if not tracks:", a video without tracks is not found
\* whatever its title.
ApiInfoResponseNoTracks(info, tracks) ==
  IF info.kind = "raise"
  THEN ApiError(500, "Internal server error: Failed to process video.")
  ELSE IF info.kind = "none" THEN ApiError(404, "Failed to fetch video information")
  ELSE IF tracks = <<>>
  THEN ApiError(404, "No subtitles or video information found")
  ELSE [status |-> 200, error |-> "", subtitle_content |-> None, track_info |-> None,
        metadata |-> Some(ApiInfoMetadata(info.dict)), tracks |-> tracks]

\* lines 30-109, tracks being the tracks of lines 65-88: the response.
ApiInfoResponse(info, tracks) ==
  IF info.kind = "raise"
  THEN ApiError(500, "Internal server error: Failed to process video.")
  ELSE IF info.kind = "none" THEN ApiError(404, "Failed to fetch video information")
  ELSE IF tracks = <<>> /\ info.dict.title \in {None, Some("")}
  THEN ApiError(404, "No subtitles or video information found")
  ELSE [status |-> 200, error |-> "", subtitle_content |-> None, track_info |-> None,
        metadata |-> Some(ApiInfoMetadata(info.dict)), tracks |-> tracks]

\* lines 18-28 and 102-103: what is sent for a body that is refused, None when
\* it is accepted.
InfoValidation(req) ==
  IF req.body = "bad" THEN Some(ApiError(400, "Expecting value"))
  ELSE IF req.video_url = "" THEN Some(ApiError(400, "video_url is required"))
  ELSE None

\* lines 18-28
ApiInfoValidate ==
  /\ pc = "start"
  /\ IF InfoValidation(request) # None
     THEN /\ api' = Send(api, Val(InfoValidation(request)),
                          IF request.body = "bad" THEN <<>> ELSE <<InfoOuterError>>,
                          request.net.write)
          /\ pc' = "done"
     ELSE /\ pc' = "extract"
          /\ UNCHANGED api
  /\ UNCHANGED <<request, downloader, pageFetches, extractions, trackFetches, response,
                 log, sub, header>>

\* lines 30-109: extract_info, the metadata, the tracks and the response.
ApiInfoExtract ==
  /\ pc = "extract"
  /\ api' = Send([api EXCEPT !.extract_infos = @ + 1],
                  ApiInfoResponse(request.net.info, ApiTracks(request.net.info.dict)),
                  IF request.net.info.kind = "raise" THEN <<>> ELSE <<InfoOuterError>>,
                  request.net.write)
  /\ pc' = "done"
  /\ UNCHANGED <<request, downloader, pageFetches, extractions, trackFetches, response,
                 log, sub, header>>

\* The inputs of the handler.
SubInfo(ext, name) == [ext |-> ext, name |-> name]

SubInfos ==
  {SubInfo("vtt", Str("str", "English")), SubInfo("json3", Str("str", "English")),
   SubInfo("srv1", Str("absent", "")), SubInfo("ttml", Str("null", ""))}

MaxSubs == 2

Item(lang_code, subs_list) == [lang_code |-> lang_code, subs_list |-> subs_list]

NoCaptions == [kind |-> "absent", items |-> <<>>]

CaptionsDict(items) == [kind |-> "dict", items |-> items]

\* The subtitle dictionaries: of no language, of one, and of two.
CaptionsDicts ==
  {NoCaptions, CaptionsDict(<<>>)}
  \cup {CaptionsDict(<<Item("en", l)>>) : l \in SeqsUpTo(SubInfos, MaxSubs)}
  \cup {CaptionsDict(<<Item("en", l), Item("de", m)>>) :
          l \in SeqsUpTo(SubInfos, MaxSubs),
          m \in {<<SubInfo("srv3", Str("str", "Deutsch"))>>,
                 <<SubInfo("json3", Str("str", "Deutsch"))>>}}

FewCaptionsDicts ==
  {NoCaptions,
   CaptionsDict(<<Item("en", <<SubInfo("vtt", Str("str", "English"))>>)>>),
   CaptionsDict(<<Item("es", <<SubInfo("json3", Str("str", "Spanish")),
                               SubInfo("srv2", Str("str", "Spanish"))>>)>>)}

TracksInfoDict(title, subtitles, automatic_captions) ==
  [title |-> title, channel |-> Some("Ch"), description |-> Some("Desc"),
   webpage_url |-> Some("https://youtu.be/vid"), id |-> Some("vid"),
   view_count |-> Some(1000), upload_date |-> Some("20230101"),
   subtitles |-> subtitles, automatic_captions |-> automatic_captions]

DefaultTracksInfoDict == TracksInfoDict(Some("T"), NoCaptions, NoCaptions)

ApiInfoRequest(body, video_url, info) ==
  [body |-> body, video_url |-> video_url, net |-> [info |-> info, write |-> "ok"]]

ApiInfoRequests ==
  {ApiInfoRequest(b, u, Info(k, DefaultTracksInfoDict)) :
     b \in {"json", "bad"}, u \in {"", "https://youtu.be/vid"},
     k \in {"raise", "none", "dict"}}
  \cup {ApiInfoRequest("json", "https://youtu.be/vid", Info("dict", TracksInfoDict(t, m, a))) :
          t \in {None, Some(""), Some("T")}, m \in CaptionsDicts, a \in FewCaptionsDicts}
  \cup {ApiInfoRequest("json", "https://youtu.be/vid",
                       Info("dict", TracksInfoDict(Some("T"), m, a))) :
          m \in FewCaptionsDicts, a \in CaptionsDicts}

InitApiInfo ==
  /\ request \in ApiInfoRequests
  /\ pc = "start"
  /\ downloader = None
  /\ pageFetches = 0
  /\ extractions = 0
  /\ trackFetches = 0
  /\ response = None
  /\ log = {}
  /\ sub = None
  /\ header = None
  /\ api = NewApi

NextApiInfo == ApiInfoValidate \/ ApiInfoExtract

SpecApiInfo == InitApiInfo /\ [][NextApiInfo]_vars

\****************************************************************************
\* One downloader called again and again: get_available_tracks is called on
\* the same YouTubeSubtitleDownloader while what the network returns for the
\* page changes from call to call.
\****************************************************************************
\* The most page fetches of one downloader.
MaxFetches == 3

\* A player response whose metadata cannot be read (line 305 raises).
RaisingPR ==
  [DefaultPR EXCEPT !.title = None,
                    !.mfTitle = [kind |-> "null", simpleText |-> Str("absent", "")]]

CallRequests ==
  FetchRequests
  \cup {Req(DefaultUrl, "ok", [PageOf(DefaultPR) EXCEPT !.scripts = <<>>], DefaultToday)}
  \cup {Req(DefaultUrl, "ok", PageOf(pr), DefaultToday) :
          pr \in {DefaultPR, OtherPR, RaisingPR,
                  [DefaultPR EXCEPT !.captions = [kind |-> "absent", captionTracks |-> <<>>]]}}

InitCalls ==
  /\ request \in CallRequests
  /\ pc = "constructed"
  /\ downloader = Construct(DefaultUrl, ExtractVideoId(DefaultUrl))
  /\ pageFetches = 0
  /\ extractions = 0
  /\ trackFetches = 0
  /\ response = None
  /\ log = {}
  /\ sub = None
  /\ header = None
  /\ api = None

\* The call returned (or raised), r being what it did: the caller keeps what
\* it got under what the network was giving.
Called(r) ==
  /\ downloader' = Some(r.d)
  /\ pageFetches' = pageFetches + r.fetches
  /\ extractions' = extractions + r.extractions
  /\ log' = log \cup {[cause |-> Cause(request), returned |-> r.tracks,
                       response |-> None]}

\* A call of get_available_tracks() on the downloader; the network may have
\* changed before the next call.
CallGetAvailableTracks ==
  /\ pc = "constructed"
  /\ pageFetches < MaxFetches
  /\ Called(GetAvailableTracks(Val(downloader), request.net))
  /\ request' \in CallRequests
  /\ UNCHANGED <<pc, trackFetches, response, sub, header, api>>

NextCalls == CallGetAvailableTracks

SpecCalls == InitCalls /\ [][NextCalls]_vars

\****************************************************************************
\* The claims about GetVideoInfo.
\****************************************************************************
\* The request was answered after _populate_video_info returned True.
Populated ==
  /\ pc = "done"
  /\ downloader # None
  /\ Val(downloader).video_metadata # None

\* The player response and the metadata of a populated downloader.
ThePR == Val(Val(downloader).player_response)

TheMetadata == Val(Val(downloader).video_metadata)

ThePage == request.net.page

\* videoDetails.viewCount parses as an integer: a string of digits, or a number.
IsIntegerViewCount(vc) ==
  \/ vc.kind = "int"
  \/ vc.kind = "str" /\ vc.s # <<>> /\ \A k \in 1..Len(vc.s) : IsDigit(vc.s[k])

IntegerViewCount(vc) == IF vc.kind = "int" THEN vc.n ELSE NatOfDigits(vc.s)

\* C1: whenever the player response carries a videoDetails.viewCount that
\* parses as an integer, the metadata view_count is that integer, whatever
\* view count the HTML yields.
C1_StructuredViewCountWins ==
  (Populated /\ IsIntegerViewCount(ThePR.viewCount))
    => TheMetadata.view_count = Some(IntegerViewCount(ThePR.viewCount))

\* The structured date of the chain: publishDate, else uploadDate, cut to
\* its first 10 characters; None when both are absent or empty.
C2_Structured ==
  IF ThePR.publishDate # None /\ Val(ThePR.publishDate) # <<>>
  THEN Some(SubSeq(Val(ThePR.publishDate), 1,
                   IF Len(Val(ThePR.publishDate)) > 10 THEN 10
                   ELSE Len(Val(ThePR.publishDate))))
  ELSE IF ThePR.uploadDate # None /\ Val(ThePR.uploadDate) # <<>>
  THEN Some(SubSeq(Val(ThePR.uploadDate), 1,
                   IF Len(Val(ThePR.uploadDate)) > 10 THEN 10
                   ELSE Len(Val(ThePR.uploadDate))))
  ELSE None

\* The calendar date 'Mon D, YYYY' a date text yields, as a set (empty when
\* the text holds none, or its month name is none of the twelve).
C2_Calendar(date) ==
  IF date.cal # None /\ Val(date.cal).mon \in DOMAIN month_names
  THEN {FormatDate(Val(date.cal).year, month_names[Val(date.cal).mon], Val(date.cal).day)}
  ELSE {}

\* The calendar dates the HTML yields: in the info span or in the tooltip.
C2_HtmlCalendarDates ==
  (IF ThePage.info # None THEN C2_Calendar(Val(ThePage.info).date) ELSE {})
  \cup (IF ThePage.tooltip # None THEN C2_Calendar(Val(ThePage.tooltip).date) ELSE {})

\* C2 as claimed: the structured date, then a calendar date found in the
\* HTML, then a relative date; so with no structured date a calendar date
\* found in the HTML determines publish_date, never a relative one.
C2_CalendarBeforeRelative ==
  (Populated /\ C2_Structured = None /\ C2_HtmlCalendarDates # {})
    => \E c \in C2_HtmlCalendarDates : TheMetadata.publish_date = Some(c)

\* The date the info span's text resolves to: its calendar date, else its
\* relative date against today (None when the text holds neither, or the
\* resolved day does not exist).
C2_InfoDate ==
  IF ThePage.info = None THEN None
  ELSE IF C2_Calendar(Val(ThePage.info).date) # {}
  THEN Some(CHOOSE c \in C2_Calendar(Val(ThePage.info).date) : TRUE)
  ELSE IF Val(ThePage.info).date.rel = None THEN None
  ELSE RelativeDate(Val(Val(ThePage.info).date.rel), request.net.today)

\* C2, amended: publish_date comes from the first source that yields a
\* value, in the order: the structured date cut to 10 characters; the date
\* text of the watch-info span (its calendar date, else its relative date);
\* the calendar date of the tooltip; else null.
C2_PublishDateChain ==
  Populated =>
    TheMetadata.publish_date =
      IF C2_Structured # None THEN C2_Structured
      ELSE IF C2_InfoDate # None THEN C2_InfoDate
      ELSE IF ThePage.tooltip # None /\ C2_Calendar(Val(ThePage.tooltip).date) # {}
      THEN Some(CHOOSE c \in C2_Calendar(Val(ThePage.tooltip).date) : TRUE)
      ELSE None

\* C2, witness: no structured date, a relative date in the info span, a
\* calendar date in the tooltip, and the relative date is the publish_date.
C2_Witness ==
  /\ Populated
  /\ C2_Structured = None
  /\ ThePage.info # None /\ ThePage.tooltip # None
  /\ C2_Calendar(Val(ThePage.info).date) = {}
  /\ C2_Calendar(Val(ThePage.tooltip).date) # {}
  /\ Val(ThePage.info).date.rel # None
  /\ TheMetadata.publish_date # None
  /\ TheMetadata.publish_date = C2_InfoDate

\* The first non-empty of two optional strings, else the literal.
C3_FirstNonEmpty(a, b, literal) ==
  IF a # None /\ Val(a) # "" THEN a
  ELSE IF b.kind = "str" /\ b.s # "" THEN Some(b.s)
  ELSE Some(literal)

\* C3: title is the first non-empty of (videoDetails title, microformat title
\* text), else "Unknown Title"; channel the first non-empty of (author,
\* ownerChannelName), else "Unknown Channel"; neither is ever empty.
C3_TitleAndChannel ==
  Populated =>
    /\ TheMetadata.title =
         C3_FirstNonEmpty(ThePR.title,
                          IF ThePR.mfTitle.kind = "object" THEN ThePR.mfTitle.simpleText
                          ELSE [kind |-> "absent", s |-> ""],
                          "Unknown Title")
    /\ TheMetadata.channel =
         C3_FirstNonEmpty(ThePR.author, ThePR.ownerChannelName, "Unknown Channel")
    /\ TheMetadata.title # Some("")
    /\ TheMetadata.channel # Some("")

\* A "v=" or "/" stands at position i of url with 11 id characters after it.
C4_TokenAt(url, i) ==
  \/ /\ url[i] = "/"
     /\ i + IdLen <= Len(url)
     /\ \A k \in (i + 1)..(i + IdLen) : url[k] \in IdChars
  \/ /\ i + 1 + IdLen <= Len(url)
     /\ url[i] = "v" /\ url[i + 1] = "="
     /\ \A k \in (i + 2)..(i + 1 + IdLen) : url[k] \in IdChars

\* The accepted shapes the request's URL has, each with the id it carries.
C4_ShapesOfUrl == {u \in ShapedUrls : u.text = request.url}

\* C4 as claimed: for a URL of an accepted shape that carries ID, the video
\* id extracted is exactly ID.
C4_ShapedUrlGivesId ==
  pc # "start" =>
    \A u \in C4_ShapesOfUrl : downloader # None /\ Val(downloader).video_id = u.id

\* C4, amended: a URL of an accepted shape gives its ID when no earlier "v="
\* or "/" is followed by 11 id characters; and every id extracted is 11 id
\* characters long and is the text after the leftmost "v=" or "/" that is
\* followed by 11 id characters (the capture of the first pattern).
C4_LeftmostToken ==
  pc # "start" =>
    /\ \A u \in C4_ShapesOfUrl :
         (\A i \in 1..(Len(u.shape) - 2) : ~C4_TokenAt(request.url, i))
           => downloader # None /\ Val(downloader).video_id = u.id
    /\ downloader # None =>
         /\ Len(Val(downloader).video_id) = 11
         /\ \A k \in 1..11 : Val(downloader).video_id[k] \in IdChars
         /\ \E i \in 1..Len(request.url) :
              /\ C4_TokenAt(request.url, i)
              /\ \A j \in 1..(i - 1) : ~C4_TokenAt(request.url, j)
              /\ LET g == IF request.url[i] = "/" THEN i + 1 ELSE i + 2
                 IN Val(downloader).video_id = SubSeq(request.url, g, g + 10)

\* C4, witness: a path-segment URL has given the id it carries, one written
\* with '-' and '_'.
C4_Witness ==
  /\ pc = "constructed"
  /\ request.url = ShapePath \o IdB \o <<"?","f","e","a","t","u","r","e","=","s","h","a","r","e">>
  /\ Val(downloader).video_id = IdB

\* The URL matches none of the video-id patterns.
C5_NoPatternMatches(url) == \A i \in 1..Len(url) : ~C4_TokenAt(url, i)

\* C5: when the URL matches none of the video-id patterns the request fails
\* with the invalid-URL error at construction, and no page fetch, no
\* player-response extraction and no track fetch is issued for it.
C5_InvalidUrlFailsFirst ==
  C5_NoPatternMatches(request.url) =>
    /\ pc # "constructed"
    /\ downloader = None
    /\ pageFetches = 0 /\ extractions = 0 /\ trackFetches = 0
    /\ pc = "done" =>
         /\ response # None
         /\ Val(response).status = 400
         /\ request.url # <<>> =>
              Val(response).error = "Invalid YouTube URL or could not extract video ID."

\* C5, witness: a non-empty URL without a video id was refused.
C5_Witness ==
  /\ pc = "done"
  /\ request.url # <<>>
  /\ C5_NoPatternMatches(request.url)
  /\ Val(response).status = 400

\* The scripts of the page, and those written with "var".
C6_Scripts == request.net.page.scripts

C6_VarScripts == {k \in 1..Len(C6_Scripts) : C6_Scripts[k].hasVar}

\* The capture of each variant: variant 1 finds the first assignment written
\* with "var", variant 2 the first assignment at all.
C6_Capture(variant) ==
  IF variant = 1
  THEN IF C6_VarScripts = {} THEN None
       ELSE Some(C6_Scripts[CHOOSE k \in C6_VarScripts : \A j \in C6_VarScripts : k <= j])
  ELSE IF C6_Scripts = <<>> THEN None ELSE Some(C6_Scripts[1])

\* The player-response extraction was run for the request.
C6_Extracted == pc = "done" /\ extractions = 1

\* C6 as claimed: the result is the parsed JSON of the first variant whose
\* capture is valid JSON; a variant whose capture is not valid JSON does not
\* keep a later one from winning.
C6_FirstValidVariantWins ==
  C6_Extracted =>
    Val(downloader).player_response =
      IF C6_Capture(1) # None /\ Val(C6_Capture(1)).doc # None THEN Val(C6_Capture(1)).doc
      ELSE IF C6_Capture(2) # None /\ Val(C6_Capture(2)).doc # None
      THEN Val(C6_Capture(2)).doc
      ELSE None

\* C6, amended: the first variant, in priority order, that matches the HTML
\* decides: the result is the parsed JSON of its capture, and null when that
\* capture is not valid JSON; the second variant is tried only when the
\* first does not match.
C6_FirstMatchingVariantDecides ==
  C6_Extracted =>
    Val(downloader).player_response =
      IF C6_Capture(1) # None THEN Val(C6_Capture(1)).doc
      ELSE IF C6_Capture(2) # None THEN Val(C6_Capture(2)).doc
      ELSE None

\* C6, witness: the first variant captured invalid JSON, the second variant's
\* capture is valid JSON, and the extraction returned null.
C6_Witness ==
  /\ C6_Extracted
  /\ C6_Capture(1) # None /\ Val(C6_Capture(1)).doc = None
  /\ Val(C6_Capture(2)).doc # None
  /\ Val(downloader).player_response = None

\* C7: the answer for a video whose player response has no captions section
\* differs from the answer when the page fetch or the player-response
\* extraction failed.
C7_EmptyDiffersFromFailure ==
  \A a, b \in log :
    (a.cause = "no_captions" /\ b.cause \in {"fetch_failed", "extract_failed"})
      => a.response # b.response

C8_HasUrl(t) == t.baseUrl # None /\ Val(t.baseUrl) # ""

RECURSIVE C8_Tracks(_, _)
\* The captionTracks entries with a non-empty baseUrl (and, when readable is
\* asked for, a name that can be read), in order, each mapped to its track.
C8_Tracks(entries, readable) ==
  IF entries = <<>> THEN <<>>
  ELSE (IF C8_HasUrl(Head(entries)) /\ (readable => Head(entries).name.kind # "bad")
        THEN <<[name |-> IF Head(entries).name.kind = "object"
                            /\ Head(entries).name.simpleText # None
                         THEN Val(Head(entries).name.simpleText)
                         ELSE "Unknown Language",
                url |-> Val(Head(entries).baseUrl),
                lang_code |-> IF Head(entries).languageCode = None THEN "unk"
                              ELSE Val(Head(entries).languageCode),
                is_asr |-> (Head(entries).kind # None /\ Val(Head(entries).kind) = "asr")]>>
        ELSE <<>>)
       \o C8_Tracks(Tail(entries), readable)

\* The request was answered from a player response with a caption-track list.
C8_Listed == Populated /\ ThePR.captions.kind = "renderer"

\* C8 as claimed: the track list is, in source order and without
\* de-duplication, exactly the entries with a non-empty baseUrl.
C8_AllEntriesWithUrl ==
  C8_Listed =>
    Val(downloader).available_tracks = C8_Tracks(ThePR.captions.captionTracks, FALSE)

\* C8, amended: the track list is, in source order and without
\* de-duplication, exactly the entries with a non-empty baseUrl whose name,
\* when present, is a JSON object (an entry whose name cannot be read is
\* skipped like one without a URL).
C8_EntriesWithUrlAndReadableName ==
  C8_Listed =>
    Val(downloader).available_tracks =
      C8_Tracks(ThePR.captions.captionTracks, TRUE)

\* C8, witness: an entry without a URL came before a kept entry, and only
\* the kept one is listed.
C8_Witness ==
  /\ C8_Listed
  /\ Len(ThePR.captions.captionTracks) = 2
  /\ ~C8_HasUrl(ThePR.captions.captionTracks[1])
  /\ C8_HasUrl(ThePR.captions.captionTracks[2])
  /\ Len(Val(downloader).available_tracks) = 1
  /\ Val(downloader).available_tracks[1].is_asr

\****************************************************************************
\* The claims about get_subtitle_srt and the converter.
\****************************************************************************
\* The call of get_subtitle_srt returned (it did not raise).
C9_Returned == sub # None /\ ~Val(sub).raised

C9_FetchOk == request.net.fetch = "ok"

\* The fetched body is empty or white space only.
C9_BlankBody ==
  /\ request.net.body.kind = "raw"
  /\ \A k \in 1..Len(request.net.body.raw) : IsSpace(request.net.body.raw[k])

\* The three outcomes: failure for a failed fetch; "" without a conversion
\* for a blank body; the converter's result otherwise.
C9_Three ==
  /\ ~C9_FetchOk => (Val(sub).ret = None /\ Val(sub).conversions = 0)
  /\ (C9_FetchOk /\ C9_BlankBody)
       => (Val(sub).ret = Some(<<>>) /\ Val(sub).conversions = 0)
  /\ (C9_FetchOk /\ ~C9_BlankBody)
       => /\ Val(sub).conversions = 1
          /\ Val(sub).ret = ParseSubtitleXmlToSrt(request.net.body).ret
  /\ trackFetches = 1

C10_Selected == SelectedElements(request.net.body.elements)

C10_Emitting ==
  {k \in 1..Len(C10_Selected) :
     /\ Timing(C10_Selected[k], StartStr(C10_Selected[k])) # None
     /\ ContentOf(C10_Selected[k]) # <<>>}

\* The index line of the j-th cue of the lines the converter built.
C10_IndexLine(j) == Val(sub).srt_lines[4 * j - 3]

\* The converter ran on an XML payload and returned an SRT.
C10_Converted ==
  /\ C9_Returned
  /\ Val(sub).conversions = 1
  /\ request.net.body.kind = "xml"
  /\ Val(sub).ret # None

\* C10: the index of every emitted cue is the 1-based position of its
\* element among the selected elements, skipped and dropped ones counted:
\* the j-th cue carries the position of the j-th emitting element, so the
\* indices increase strictly, with a gap where an element gave no cue.
C10_IndexIsElementPosition ==
  C10_Converted =>
    /\ Len(Val(sub).srt_lines) = 4 * Cardinality(C10_Emitting)
    /\ \A j \in 1..Cardinality(C10_Emitting) :
         \E k \in C10_Emitting :
           /\ Cardinality({m \in C10_Emitting : m <= k}) = j
           /\ C10_IndexLine(j) = StrOfNat(k)
    /\ \A i, j \in 1..Cardinality(C10_Emitting) :
         i < j => NatOfDigits(C10_IndexLine(i)) < NatOfDigits(C10_IndexLine(j))

\* C10, witness: of three selected elements the second gave no cue, and the
\* two cues emitted are numbered 1 and 3.
C10_Witness ==
  /\ C10_Converted
  /\ Len(C10_Selected) = 3
  /\ C10_Emitting = {1, 3}
  /\ C10_IndexLine(1) = <<"1">>
  /\ C10_IndexLine(2) = <<"3">>

\* The number of cues in the lines the converter built, and the lines of
\* the j-th: its timing line and its text.
C11_Cues == Len(Val(sub).srt_lines) \div 4

C11_TimingLine(j) == Val(sub).srt_lines[4 * j - 2]

C11_Text(j) == Val(sub).srt_lines[4 * j - 1]

\* The milliseconds of the timestamp HH:MM:SS,mmm written at position p of
\* a timing line (the start at 1, the end at 18).
C11_Millis(line, p) ==
  NatOfDigits(SubSeq(line, p, p + 1)) * 3600000
  + NatOfDigits(SubSeq(line, p + 3, p + 4)) * 60000
  + NatOfDigits(SubSeq(line, p + 6, p + 7)) * 1000
  + NatOfDigits(SubSeq(line, p + 9, p + 11))

\* Every time attribute of every element of the payload is numeric or absent.
C11_NumericPayload ==
  \A k \in 1..Len(request.net.body.elements) :
    \A a \in {request.net.body.elements[k].start, request.net.body.elements[k].begin,
              request.net.body.elements[k].dur, request.net.body.elements[k].end} :
      a.kind \in {"num", "absent"}

\* C11: for a payload with numeric time attributes, every emitted cue has an
\* index >= 1, a non-empty text, and a start timestamp that is not later
\* than its end timestamp.
C11_CueWellFormed ==
  (C10_Converted /\ C11_NumericPayload) =>
    \A j \in 1..C11_Cues :
      /\ NatOfDigits(C10_IndexLine(j)) >= 1
      /\ C11_Text(j) # <<>>
      /\ C11_Millis(C11_TimingLine(j), 1) <= C11_Millis(C11_TimingLine(j), 18)

\* The element the j-th cue was made from (C10: its index is the position).
C12_ElementOf(j) == C10_Selected[NatOfDigits(C10_IndexLine(j))]

\* C12: for an element whose content is a text A, one empty <br> marker and
\* a text B, the cue text is A, a single newline, then B.
C12_BreakReconstructed ==
  C10_Converted =>
    \A j \in 1..C11_Cues :
      (/\ Len(C12_ElementOf(j).content.brs) = 1
       /\ Strip(C12_ElementOf(j).content.text) # <<>>
       /\ Strip(C12_ElementOf(j).content.brs[1]) # <<>>)
        => C11_Text(j) = Strip(C12_ElementOf(j).content.text) \o <<"\n">>
                         \o Strip(C12_ElementOf(j).content.brs[1])

\* The <text> and the <p> elements of the payload, and the ones to consider:
\* the <p> elements only when there is no <text> element at all.
C13_TextElements == SelectSeq(request.net.body.elements, IsTextElement)

C13_PElements == SelectSeq(request.net.body.elements, IsPElement)

C13_Considered ==
  IF C13_TextElements # <<>> THEN C13_TextElements ELSE C13_PElements

\* The element gives no cue: it is skipped for its timing or dropped for its
\* empty text.
C13_NoCue(e) == Timing(e, StartStr(e)) = None \/ ContentOf(e) = <<>>

\* The converter ran on a well-formed payload.
C13_ConvertedXml ==
  /\ C9_Returned
  /\ Val(sub).conversions = 1
  /\ request.net.body.kind = "xml"

\* C13: a well-formed payload of which every considered element is skipped
\* or dropped (or that has none) gives the empty string, not the failure
\* result; and with a <text> element in the payload the cues are those of
\* the <text> elements only.
C13_EmptyNotFailure ==
  C13_ConvertedXml =>
    /\ (\A k \in 1..Len(C13_Considered) : C13_NoCue(C13_Considered[k]))
         => Val(sub).ret = Some(<<>>)
    /\ (C13_TextElements # <<>> /\ Val(sub).ret # None)
         => Len(Val(sub).srt_lines) =
              4 * Cardinality({k \in 1..Len(C13_TextElements) :
                                 ~C13_NoCue(C13_TextElements[k])})

\* C13, witness: the only <text> element was skipped, a <p> element that
\* would give a cue follows it, and the empty string was returned.
C13_Witness ==
  /\ C13_ConvertedXml
  /\ Len(request.net.body.elements) = 2
  /\ request.net.body.elements[1].tag = "text"
  /\ C13_NoCue(request.net.body.elements[1])
  /\ request.net.body.elements[2].tag = "p"
  /\ ~C13_NoCue(request.net.body.elements[2])
  /\ Val(sub).ret = Some(<<>>)

\* The time of t whole milliseconds the start attribute of the j-th cue's
\* element denotes, clamped at zero.
C14_StartMillis(j) ==
  IF StartStr(C12_ElementOf(j)).ms < 0 THEN 0 ELSE StartStr(C12_ElementOf(j)).ms

\* C14: the timestamp seconds_to_srt_time writes for a time of t whole
\* milliseconds is HH:MM:SS,mmm with the fields of t, zero-padded (a
\* negative time as zero), and the mapping is monotone.
C14_ExactTimestamp ==
  C10_Converted =>
    /\ \A j \in 1..C11_Cues :
         SubSeq(C11_TimingLine(j), 1, 12) = FormatSrtTime(C14_StartMillis(j))
    /\ \A i, j \in 1..C11_Cues :
         C14_StartMillis(i) <= C14_StartMillis(j)
           => C11_Millis(C11_TimingLine(i), 1) <= C11_Millis(C11_TimingLine(j), 1)

\****************************************************************************
\* The claims about the dates and the view counts of the metadata.
\****************************************************************************
\* The publish_date came from a relative date of the info span: there is no
\* structured date, and the span's text holds no calendar date.
C17_FromRelative ==
  /\ Populated
  /\ C2_Structured = None
  /\ ThePage.info # None
  /\ C2_Calendar(Val(ThePage.info).date) = {}
  /\ Val(ThePage.info).date.rel # None

\* C17: "N years ago" gives the date with the reference year less N and the
\* month and day of the reference date, as YYYY-MM-DD.
C17_YearsAgo ==
  (C17_FromRelative /\ Val(Val(ThePage.info).date.rel).unit = "year") =>
    TheMetadata.publish_date =
      Some(Year4(request.net.today.y - Val(Val(ThePage.info).date.rel).n) \o <<"-">>
           \o Pad2(request.net.today.m) \o <<"-">> \o Pad2(request.net.today.d))

\* s is YYYY-MM-DD with a month 01..12 and a day 01..31.
C18_IsIsoDate(s) ==
  /\ Len(s) = 10
  /\ \A k \in {1, 2, 3, 4, 6, 7, 9, 10} : IsDigit(s[k])
  /\ s[5] = "-" /\ s[8] = "-"
  /\ NatOfDigits(SubSeq(s, 6, 7)) \in 1..12
  /\ NatOfDigits(SubSeq(s, 9, 10)) \in 1..31

\* C18: every publish_date of the metadata that is not null is a
\* 10-character YYYY-MM-DD with month 01..12 and day 01..31.
C18_PublishDateShape ==
  (Populated /\ TheMetadata.publish_date # None)
    => C18_IsIsoDate(Val(TheMetadata.publish_date))

\* The text before the first blank of a view count text ("2.7M" of
\* "2.7M views").
C19_Number(text) ==
  SubSeq(text, 1, (CHOOSE k \in 1..Len(text) :
                     text[k] = " " /\ \A j \in 1..(k - 1) : text[j] # " ") - 1)

\* What the claim gives for the number num: with a suffix K, M or B the
\* decimal number before it times 1000, 1000000 or 1000000000; without one
\* the integer with its commas removed; null when there is no number.
C19_Expected(num) ==
  IF num = <<>> THEN None
  ELSE IF Multiplier(num[Len(num)]) # 0
  THEN (IF ParseFloat(SubSeq(num, 1, Len(num) - 1)) = None THEN None
        ELSE Some(Val(ParseFloat(SubSeq(num, 1, Len(num) - 1)))[1]
                  * (Multiplier(num[Len(num)])
                     \div Pow10(Val(ParseFloat(SubSeq(num, 1, Len(num) - 1)))[2]))))
  ELSE ParseInt(RemoveCommas(num))

\* C19: the view count parsed from "<number><suffix> views" is the number
\* times the multiplier of the suffix, from a comma-grouped integer the
\* integer, and null from a text with no number (seen in the metadata when
\* the info span is the only source of the view count).
C19_ViewCountParsed ==
  (/\ Populated
   /\ ThePR.viewCount.kind = "absent"
   /\ ThePage.info # None
   /\ ThePage.tooltip = None)
    => TheMetadata.view_count = C19_Expected(C19_Number(Val(ThePage.info).views))

\****************************************************************************
\* The claims about the metadata header.
\****************************************************************************
\* The positions of the line breaks of text.
C15_Breaks(text) == {i \in 1..Len(text) : SubSeq(text, i, i) = "\n"}

\* The position of the k-th line break of text: 0 for k = 0, and one past the
\* end of text when it has fewer than k line breaks.
C15_Break(text, k) ==
  IF k = 0 THEN 0
  ELSE IF k > Cardinality(C15_Breaks(text)) THEN Len(text) + 1
  ELSE CHOOSE i \in C15_Breaks(text) :
         Cardinality({j \in C15_Breaks(text) : j <= i}) = k

\* The lines of text: text split at its line breaks.
C15_Lines(text) ==
  [k \in 1..(Cardinality(C15_Breaks(text)) + 1) |->
     SubSeq(text, C15_Break(text, k - 1) + 1, C15_Break(text, k) - 1)]

C15_Fields == <<"title", "channel", "url", "publish_date", "view_count", "description">>

\* The value of field k of the metadata.
C15_Value(k) ==
  CASE k = 1 -> request.title [] k = 2 -> request.channel [] k = 3 -> request.url
    [] k = 4 -> request.publish_date [] k = 5 -> request.view_count
    [] OTHER -> request.description

\* Field k is present: a non-empty string, or a number (0 included).
C15_Present(k) ==
  IF k = 5 THEN C15_Value(k).kind = "int"
  ELSE C15_Value(k).kind = "str" /\ C15_Value(k).s # ""

\* The line of field k: name = "value", the count without quotes.
C15_LineOf(k) ==
  IF k = 5 THEN "view_count = " \o Text(StrOfNat(C15_Value(k).n))
  ELSE C15_Fields[k] \o " = \"" \o C15_Value(k).s \o "\""

\* The number of fields up to field k that are present.
C15_Rank(k) == Cardinality({i \in 1..k : C15_Present(i)})

\* C15: the header is the [video] line, then one line for each field that is
\* present (a view_count of 0 included), in the order title, channel, url,
\* publish_date, view_count, description, with no line (blank or placeholder)
\* for a field that is absent, null or empty, and then the [transcript]
\* marker (a blank line, [transcript], a blank line and the opening fence).
C15_HeaderListsPresentFields ==
  header # None =>
    LET lines == C15_Lines(Val(header))
        n == Len(lines)
    IN /\ n = 1 + C15_Rank(6) + 4
       /\ lines[1] = "[video]"
       /\ \A k \in 1..6 : C15_Present(k) => lines[1 + C15_Rank(k)] = C15_LineOf(k)
       /\ \A i \in 2..(n - 4) : lines[i] # ""
       /\ SubSeq(lines, n - 3, n) = <<"", "[transcript]", "", Fence>>

\* C15, witness: a header formatted for a metadata with a view_count of 0, no
\* title, an empty channel and a null publish_date.
C15_Witness ==
  /\ header # None
  /\ request.view_count = JInt("int", 0)
  /\ request.title.kind = "absent"
  /\ request.channel = Str("str", "")
  /\ request.publish_date.kind = "null"
  /\ request.description = Str("str", "D")
  /\ Val(header) = "[video]\nurl = \"https://youtu.be/x\"\nview_count = 0\ndescription = \"D\"\n\n[transcript]\n\n~~~"

\****************************************************************************
\* The claims about the handlers of src/api.
\****************************************************************************
\* C16: within one GetSubtitle call the video's info is retrieved (the video
\* identified, ydl.extract_info called) at most once, also when
\* include_metadata is true and both the content and the metadata are
\* produced.
C16_InfoRetrievedAtMostOnce ==
  api # None => api.extract_infos <= 1

RECURSIVE C20_Entries(_)
\* The (lang_code, entry) pairs of a subtitle dictionary whose format is one
\* of srv1, srv2, srv3, ttml, vtt, in the order of the dictionary.
C20_Entries(items) ==
  IF items = <<>> THEN <<>>
  ELSE [i \in 1..Len(SelectSeq(Head(items).subs_list,
                               LAMBDA e : e.ext \in {"srv1", "srv2", "srv3", "ttml", "vtt"})) |->
          [lang_code |-> Head(items).lang_code,
           entry |-> SelectSeq(Head(items).subs_list,
                               LAMBDA e : e.ext \in {"srv1", "srv2", "srv3", "ttml", "vtt"})[i]]]
       \o C20_Entries(Tail(items))

C20_Manual == C20_Entries(request.net.info.dict.subtitles.items)

C20_Automatic == C20_Entries(request.net.info.dict.automatic_captions.items)

\* The response to a request whose info was retrieved.
C20_Answered ==
  /\ pc = "done"
  /\ api.extract_infos = 1
  /\ request.net.info.kind = "dict"

\* The string s ends with the string t.
C20_EndsWith(s, t) == Len(s) >= Len(t) /\ SubSeq(s, Len(s) - Len(t) + 1, Len(s)) = t

\* C20: the tracks returned are one per subtitle entry whose format is one of
\* srv1, srv2, srv3, ttml, vtt, and no other: first those of the manual
\* subtitles, with is_asr false and the entry's name (the language code when
\* the entry has no name), then those of the automatic captions, with is_asr
\* true and a name ending with "(auto-generated)", each with the language
\* code of its entry; and a video with such an entry is answered with success.
C20_TracksFollowEntries ==
  C20_Answered =>
    LET sent == api.sent[1]
        m == Len(C20_Manual)
        a == Len(C20_Automatic)
    IN /\ Len(api.sent) = 1
       /\ m + a > 0 => sent.status = 200
       /\ sent.status = 200 =>
            /\ Len(sent.tracks) = m + a
            /\ \A i \in 1..m :
                 /\ sent.tracks[i].is_asr = FALSE
                 /\ sent.tracks[i].lang_code = C20_Manual[i].lang_code
                 /\ C20_Manual[i].entry.name.kind = "str"
                      => sent.tracks[i].name = Some(C20_Manual[i].entry.name.s)
                 /\ C20_Manual[i].entry.name.kind = "absent"
                      => sent.tracks[i].name = Some(C20_Manual[i].lang_code)
            /\ \A i \in 1..a :
                 /\ sent.tracks[m + i].is_asr = TRUE
                 /\ sent.tracks[m + i].lang_code = C20_Automatic[i].lang_code
                 /\ C20_EndsWith(Val(sent.tracks[m + i].name), "(auto-generated)")
                 /\ C20_Automatic[i].entry.name.kind = "str"
                      => Val(sent.tracks[m + i].name)
                           = C20_Automatic[i].entry.name.s \o " (auto-generated)"

\* C20, witness: a success whose manual subtitles hold a vtt entry and a json3
\* entry of one language and an entry of a second language, and whose
\* automatic captions hold a json3 and a srv2 entry: three tracks, the two
\* manual ones first.
C20_Witness ==
  /\ C20_Answered
  /\ request.net.info.dict.subtitles.items
       = <<Item("en", <<SubInfo("vtt", Str("str", "English")),
                        SubInfo("json3", Str("str", "English"))>>),
           Item("de", <<SubInfo("srv3", Str("str", "Deutsch"))>>)>>
  /\ request.net.info.dict.automatic_captions.items
       = <<Item("es", <<SubInfo("json3", Str("str", "Spanish")),
                        SubInfo("srv2", Str("str", "Spanish"))>>)>>
  /\ api.sent[1].status = 200
  /\ [i \in 1..3 |-> api.sent[1].tracks[i].name]
       = <<Some("English"), Some("Deutsch"), Some("Spanish (auto-generated)")>>
  /\ [i \in 1..3 |-> api.sent[1].tracks[i].is_asr] = <<FALSE, FALSE, TRUE>>

\* The video of the request has a title: the info dictionary holds a
\* non-empty one.
C21_Titled ==
  /\ request.net.info.kind = "dict"
  /\ request.net.info.dict.title \notin {None, Some("")}

\* The video of the request has no subtitle entry of a listed format.
C21_NoEntries == Len(C20_Manual) + Len(C20_Automatic) = 0

\* C21: a video whose info holds a title and no subtitle track is answered
\* with success, the metadata and an empty track list; and "not found" (404)
\* is answered only when there is no track and no title (no info at all
\* included).
C21_TitledWithoutTracksSucceeds ==
  (pc = "done" /\ api.extract_infos = 1) =>
    /\ Len(api.sent) = 1
    /\ (C21_Titled /\ C21_NoEntries) =>
         /\ api.sent[1].status = 200
         /\ api.sent[1].error = ""
         /\ api.sent[1].tracks = <<>>
         /\ api.sent[1].metadata # None
         /\ Val(api.sent[1].metadata).title = request.net.info.dict.title
    /\ api.sent[1].status = 404 =>
         \/ request.net.info.kind = "none"
         \/ request.net.info.kind = "dict" /\ C21_NoEntries /\ ~C21_Titled

\* C21, witness: a titled video whose only subtitle entry is of the json3
\* format was answered with success and no track.
C21_Witness ==
  /\ pc = "done"
  /\ api.extract_infos = 1
  /\ C21_Titled
  /\ request.net.info.dict.subtitles.items
       = <<Item("en", <<SubInfo("json3", Str("str", "English"))>>)>>
  /\ request.net.info.dict.automatic_captions = NoCaptions
  /\ api.sent = <<[status |-> 200, error |-> "", subtitle_content |-> None,
                   track_info |-> None,
                   metadata |-> Some(ApiInfoMetadata(request.net.info.dict)),
                   tracks |-> <<>>]>>

\****************************************************************************
\* The claims about the get_subtitles handler.
\****************************************************************************
\* The body of the request passes the validation of lines 28-38.
C22_Valid ==
  /\ request.body = "json"
  /\ request.video_url # ""
  /\ request.track_info.kind = "dict"
  /\ {"lang_code", "is_asr"} \subseteq request.track_info.keys

\* The files of the temporary directory that end with .srt.
C22_SrtFiles ==
  {request.net.files[i] : i \in {j \in 1..Len(request.net.files) :
                                   request.net.files[j].suffix \in {"lang", "asr", "srt"}}}

\* The failures the claim lists: the pre-fetch raises or yields no id, the
\* download raises, or no .srt file exists after the download.
C22_Failing ==
  \/ request.net.pre # "ok"
  \/ request.net.download = "raise"
  \/ C22_SrtFiles = {}

\* C22 as stated: a failing request is answered with one error response whose
\* message is one of the three listed, and never with a success.
C22_ErrorIsOneOfThree ==
  (pc = "done" /\ request.net.write = "ok" /\ C22_Valid /\ C22_Failing) =>
    /\ Len(api.sent) = 1
    /\ api.sent[1].status # 200
    /\ api.sent[1].subtitle_content = None
    /\ api.sent[1].error \in {"Error fetching video ID: ",
                              "Failed to download or read subtitles: ",
                              "Subtitle file for language 'en' not found"}

\* C22, amended: a success response carrying subtitle_content is sent only if
\* a .srt file was found in the temporary directory and read, its content
\* being that of one of these files; a request whose pre-fetch raises is
\* answered with "Error fetching video ID", one whose pre-fetch yields no info
\* or no id with "Failed to extract video ID.", one whose download or file
\* read raises with "Failed to download or read subtitles", one that leaves no
\* .srt file with "Subtitle file for language '<lang>' not found": each with
\* status 500, and never with a success.
C22_SuccessOnlyWithFile ==
  pc = "done" =>
    /\ \A i \in 1..Len(api.sent) :
         api.sent[i].status = 200 =>
           /\ C22_Valid /\ ~C22_Failing /\ request.net.read = "ok"
           /\ api.sent[i].subtitle_content # None
           /\ ~request.include_metadata =>
                \E f \in C22_SrtFiles :
                  Val(api.sent[i].subtitle_content) = StripText(f.text)
    /\ (request.net.write = "ok" /\ C22_Valid /\ (C22_Failing \/ request.net.read = "raise")) =>
         /\ Len(api.sent) = 1
         /\ api.sent[1].status = 500
         /\ api.sent[1].subtitle_content = None
         /\ api.sent[1].error =
              IF request.net.pre = "raise" THEN "Error fetching video ID: "
              ELSE IF request.net.pre \in {"none", "noid"} THEN "Failed to extract video ID."
              ELSE IF request.net.download = "raise" THEN "Failed to download or read subtitles: "
              ELSE IF C22_SrtFiles = {} THEN "Subtitle file for language 'en' not found"
              ELSE "Failed to download or read subtitles: "

\* C22, witness: a pre-fetch that gave an info without id was answered with
\* the one error "Failed to extract video ID.", nothing being downloaded.
C22_Witness ==
  /\ pc = "done"
  /\ C22_Valid
  /\ request.net.pre = "noid"
  /\ request.net.write = "ok"
  /\ api.sent = <<ApiError(500, "Failed to extract video ID.")>>
  /\ api.downloads = 0

\****************************************************************************
\* The claims about the timing of the cues and the faults of the elements.
\****************************************************************************
\* The attribute the start time of element e is read from: start, or begin
\* when start is absent (or, with empty_too, when start is the empty text).
C24_StartAttr(e, empty_too) ==
  IF e.start.kind = "absent" \/ (empty_too /\ e.start.kind = "empty")
  THEN e.begin ELSE e.start

\* The cues that carry the index k.
C24_CuesOf(k) == {j \in 1..C11_Cues : C10_IndexLine(j) = StrOfNat(k)}

\* The timing line of an element that starts at the attribute s: from s to
\* s + dur when dur is present, to end otherwise.
C24_Line(e, s) ==
  seconds_to_srt_time(Float(FALSE, s.ms, 0)) \o <<" ","-","-",">"," ">>
  \o (IF e.dur.kind # "absent" THEN seconds_to_srt_time(Float(FALSE, s.ms, e.dur.ms))
      ELSE seconds_to_srt_time(Float(FALSE, e.end.ms, 0)))

\* The timing rule, for the selected elements of a converted payload: an
\* element without start attribute, or with neither dur nor end, has no cue;
\* and the cue of an element has its times from the numeric values of the
\* attributes.
C24_Rule(empty_too) ==
  C10_Converted =>
    \A k \in 1..Len(C10_Selected) :
      /\ (\/ C24_StartAttr(C10_Selected[k], empty_too).kind = "absent"
          \/ (C10_Selected[k].dur.kind = "absent" /\ C10_Selected[k].end.kind = "absent"))
           => C24_CuesOf(k) = {}
      /\ \A j \in C24_CuesOf(k) :
           /\ C24_StartAttr(C10_Selected[k], empty_too).kind = "num"
           /\ C10_Selected[k].dur.kind # "absent" => C10_Selected[k].dur.kind = "num"
           /\ C10_Selected[k].dur.kind = "absent" => C10_Selected[k].end.kind = "num"
           /\ C11_TimingLine(j)
                = C24_Line(C10_Selected[k], C24_StartAttr(C10_Selected[k], empty_too))

\* C24 as stated: the start time is the value of the start attribute, or of
\* begin when start is absent; the end time is start + dur when dur is
\* present, the value of end otherwise; an element with neither start nor
\* begin, or with neither dur nor end, emits no cue.
C24_BeginWhenStartAbsent == C24_Rule(FALSE)

\* C24, amended: the same, the begin attribute being read also when the
\* start attribute is present but empty.
C24_BeginWhenStartAbsentOrEmpty == C24_Rule(TRUE)

\* C24, witness: an element with an empty start attribute, begin 1.0 and dur
\* 2.0 gave a cue from 1 s to 3 s, and an element with begin, dur and end
\* gave a cue whose end is begin + dur.
C24_Witness ==
  /\ C10_Converted
  /\ request.net.body.elements
       = <<Element("text", Attr("empty", 0), Num(1000), Num(2000), Absent,
                   Content(<<"E">>, <<>>))>>
  /\ C11_Cues = 1
  /\ C11_Millis(C11_TimingLine(1), 1) = 1000
  /\ C11_Millis(C11_TimingLine(1), 18) = 3000

\****************************************************************************
\* The claim about the relative dates in months.
\****************************************************************************
\* C25: "N months ago" gives a date, never null: its month is in 1..12, its
\* year and month satisfy 12*year + month = 12*Y + M - N for the reference
\* date (Y, M, D), and its day is D.
C25_MonthsAgo ==
  (C17_FromRelative /\ Val(Val(ThePage.info).date.rel).unit = "month") =>
    /\ TheMetadata.publish_date # None
    /\ LET s == Val(TheMetadata.publish_date)
           year == NatOfDigits(SubSeq(s, 1, 4))
           month == NatOfDigits(SubSeq(s, 6, 7))
           day == NatOfDigits(SubSeq(s, 9, 10))
       IN /\ Len(s) = 10
          /\ month \in 1..12
          /\ 12 * year + month
               = 12 * request.net.today.y + request.net.today.m
                 - Val(Val(ThePage.info).date.rel).n
          /\ day = request.net.today.d

\****************************************************************************
\* The claim about the faults confined to one element.
\****************************************************************************
\* The element has what a cue needs: a start (or begin) and a dur, or an
\* end without dur, that are finite numbers, and text left after stripping.
C26_Usable(e) ==
  /\ StartStr(e).kind = "num"
  /\ IF e.dur.kind # "absent" THEN e.dur.kind = "num" ELSE e.end.kind = "num"
  /\ ContentOf(e) # <<>>

\* C26: the converter returns the failure result only when the payload is
\* not well-formed XML; on a well-formed payload a faulty element is only
\* skipped, and every other element has its cue, with its index, its
\* timestamps and its text.
C26_FailureOnlyWhenMalformed ==
  (C9_Returned /\ Val(sub).conversions = 1) =>
    /\ Val(sub).ret = None => request.net.body.kind # "xml"
    /\ request.net.body.kind = "xml" =>
         \A k \in 1..Len(C10_Selected) :
           C26_Usable(C10_Selected[k]) =>
             \E j \in 1..(Len(Val(sub).srt_lines) \div 4) :
               /\ Val(sub).srt_lines[4 * j - 3] = StrOfNat(k)
               /\ Val(sub).srt_lines[4 * j - 2]
                    = C24_Line(C10_Selected[k], StartStr(C10_Selected[k]))
               /\ Val(sub).srt_lines[4 * j - 1] = ContentOf(C10_Selected[k])

\****************************************************************************
\* The claim about repeated calls of get_available_tracks.
\****************************************************************************
\* The populate of a call under the network net fails at the page fetch or
\* at the extraction of the player response.
C27_FailsEarly(net) ==
  net.fetch # "ok" \/ ExtractPlayerResponse(net.page.scripts) = None

\* What a call does to the downloader d, giving e, f and g being the page
\* fetches before and after it.
C27_Step(d, e, net, f, g) ==
  /\ d.player_response # None
       => /\ g = f
          /\ e.available_tracks = d.available_tracks
          /\ e.video_metadata = d.video_metadata
  /\ (d.player_response = None /\ C27_FailsEarly(net))
       => /\ g = f + 1
          /\ e.video_metadata = None
          /\ e.available_tracks = <<>>
          /\ e.player_response = None
  /\ e.player_response # None
       => e.available_tracks \in {<<>>, TracksOf(<<>>, Val(e.player_response))}

\* C27: in any sequence of get_available_tracks calls on one downloader, a
\* call made once the player response is stored fetches no page and leaves
\* available_tracks and video_metadata as they were, so that the tracks are
\* those of the player response, once each; and a call whose populate fails
\* at the page fetch or at the extraction leaves video_metadata and
\* available_tracks empty and no player response stored, so that the next
\* call fetches again.
C27_RepeatedCalls ==
  [][C27_Step(Val(downloader), Val(downloader'), request.net, pageFetches, pageFetches')]_vars

\* C27, witness: the first call failed at the page fetch, the second fetched
\* again and found the tracks, and a later call, made while the network was
\* failing again, returned these tracks without a fetch.
C27_Witness ==
  /\ pageFetches = 2
  /\ extractions = 1
  /\ Val(downloader).available_tracks # <<>>
  /\ \E o \in log : o.cause = "fetch_failed" /\ o.returned = <<>>
  /\ \E o \in log : o.cause = "fetch_failed"
                    /\ o.returned = Val(downloader).available_tracks

\****************************************************************************
\* The claims about the responses of the handlers of src/api.
\****************************************************************************
\* C28: on every path of do_POST, the paths where writing a response raises
\* included, exactly one HTTP response is sent for the request: one status
\* line and one JSON body.
C28_ExactlyOneResponse ==
  (pc = "done" /\ request.method = "POST") => (Len(api.sent) = 1 /\ api.bodies = 1)

\* The body of the request lacks video_url, or lacks track_info, or its
\* track_info lacks lang_code or is_asr.
C29_Lacking ==
  /\ request.body = "json"
  /\ \/ request.video_url = ""
     \/ request.track_info.kind = "absent"
     \/ "lang_code" \notin request.track_info.keys
     \/ "is_asr" \notin request.track_info.keys

\* C29: validation precedes all extraction work: a request whose body lacks
\* video_url, track_info, or the lang_code or is_asr of track_info is
\* answered with a 400 error (the only response when its write succeeds),
\* yt-dlp is never invoked for it and no temporary directory is created.
C29_ValidationFirst ==
  C29_Lacking =>
    /\ pc \in {"start", "done"}
    /\ api.extract_infos = 0 /\ api.downloads = 0 /\ api.tmpdirs = 0
    /\ pc = "done" =>
         /\ api.sent # <<>>
         /\ api.sent[1].status = 400
         /\ api.sent[1].subtitle_content = None
         /\ request.net.write = "ok" => (Len(api.sent) = 1 /\ api.bodies = 1)

\* C29, witness: a request whose track_info has lang_code and no is_asr was
\* answered with the 400 error, while yt-dlp would have served it.
C29_Witness ==
  /\ pc = "done"
  /\ C29_Lacking
  /\ request.video_url # ""
  /\ request.track_info.keys = {"lang_code"}
  /\ request.net.pre = "ok"
  /\ api.sent = <<ApiError(400, "track_info with lang_code and is_asr is required")>>
  /\ api.extract_infos = 0 /\ api.tmpdirs = 0

\* The positions of the wire where a response begins, and the headers of
\* the response that begins at position i: what is written up to the next
\* end of headers.
C30_Begins == {i \in 1..Len(api.wire) : api.wire[i] = "status"}

C30_HeadersFrom(i) ==
  {api.wire[k] : k \in {k \in i..Len(api.wire) :
                          \A m \in i..k : api.wire[m] # "end"}}

\* C30: the answer to an OPTIONS request is a complete response, the status
\* line first, then the three CORS headers and the end of the headers; and
\* every JSON response carries the three CORS headers.
C30_CompleteResponses ==
  pc = "done" =>
    /\ request.method = "OPTIONS" =>
         /\ api.wire # <<>>
         /\ api.wire[1] = "status"
         /\ api.wire = <<"status">> \o CorsHeaders \o <<"end">>
    /\ request.method = "POST" =>
         /\ C30_Begins # {}
         /\ api.wire[1] = "status"
         /\ \A i \in C30_Begins :
              \A h \in 1..Len(CorsHeaders) : CorsHeaders[h] \in C30_HeadersFrom(i)

\****************************************************************************
\* The claim about the content of a successful GetSubtitle response.
\****************************************************************************
\* The handler answered the request with a success.
C23_Success ==
  /\ pc = "done"
  /\ request.method = "POST"
  /\ api.sent # <<>>
  /\ api.sent[1].status = 200

\* The subtitle body: the content of the file read, stripped.
C23_Body == StripText(Val(api.srt_content))

C23_StartsWith(s, p) == Len(s) >= Len(p) /\ SubSeq(s, 1, Len(p)) = p

C23_EndsWith(s, p) == Len(s) >= Len(p) /\ SubSeq(s, Len(s) - Len(p) + 1, Len(s)) = p

\* The content is the header block followed by the body, and the metadata
\* object is there.
C23_WithMetadata(r) ==
  /\ C23_StartsWith(Val(r.subtitle_content), Fence \o "text\nTitle: ")
  /\ C23_EndsWith(Val(r.subtitle_content), "\n\n" \o C23_Body \o "\n" \o Fence)
  /\ r.metadata # None

\* The content is the bare body, and the metadata field is null.
C23_Bare(r) == r.subtitle_content = Some(C23_Body) /\ r.metadata = None

\* C23 as stated: in a successful response the content is the metadata
\* header followed by the body and metadata is an object when
\* include_metadata is true; the content is the bare body and metadata is
\* null when it is false; track_info is echoed unchanged.
C23_HeaderWheneverAsked ==
  C23_Success =>
    /\ request.include_metadata => C23_WithMetadata(api.sent[1])
    /\ ~request.include_metadata => C23_Bare(api.sent[1])
    /\ api.sent[1].track_info = Some(request.track_info)

\* C23, amended: the same when the metadata could be retrieved; when
\* include_metadata is true and the retrieval of the metadata fails, the
\* response is still a success, with the bare body and a null metadata.
C23_HeaderWhenRetrieved ==
  C23_Success =>
    /\ (request.include_metadata /\ request.net.info.kind = "dict")
         => C23_WithMetadata(api.sent[1])
    /\ (request.include_metadata /\ request.net.info.kind # "dict")
         => C23_Bare(api.sent[1])
    /\ ~request.include_metadata => C23_Bare(api.sent[1])
    /\ api.sent[1].track_info = Some(request.track_info)

\* C23, witness: metadata were asked for, their retrieval raised, and the
\* success response has the bare body and no metadata.
C23_Witness ==
  /\ C23_Success
  /\ request.include_metadata
  /\ request.net.info.kind = "raise"
  /\ api.sent[1].subtitle_content = Some("1\n00:00:00,000 --> 00:00:01,000\nHi")
  /\ api.sent[1].metadata = None
  /\ api.sent[1].track_info = Some(DefaultTrackInfo)

====
